---- MODULE Spec2Model ----
(***************************************************************************)
(* A model of the Taiwan lottery draw-data scripts: the reconciliation     *)
(* engine (merge_and_deduplicate), the archive ingestor                    *)
(* (parse_taiwan_lottery_csv, batch_process_zip_files), persistence        *)
(* (load_existing_data, save_data) and the entry points of                 *)
(* scripts/initialize.py and scripts/update.py.                            *)
(*                                                                         *)
(* Game names are written in ASCII:                                        *)
(*   "Lotto649" = 大樂透, "SuperLotto638" = 威力彩,                         *)
(*   "DailyCash" = 今彩539, "Star3" = 3星彩.                                *)
(* A draw record is [date, period, numbers, special]; dates are day        *)
(* numbers (the code compares 'YYYY-MM-DD' strings, whose order is the     *)
(* calendar order), special is <<>> when the record has no 'special' key.  *)
(***************************************************************************)
EXTENDS Integers, Sequences, FiniteSets, TLC

VARIABLES
    pc,            \* where the running entry point is
    dataFile,      \* data/lottery-data.json
    backupFile,    \* data/lottery-data-backup.json
    infoFile,      \* data/update-info.json
    existing,      \* existing_data, as load_existing_data returned it
    new_data,      \* the batch handed to the merge, game -> list of draws
    merged,        \* first component of merge_and_deduplicate's result
    total_added,   \* second component of merge_and_deduplicate's result
    merged2,       \* result of merging the same batch a second time
    total_added2,
    csv_files,     \* the extracted CSV files of the archives, in processing order
    run,           \* the entry point that is running
    ended,         \* how the last entry point ended
    at_start,      \* data/lottery-data.json as it was when the entry point started
    pre_save,      \* data/lottery-data.json as it was when save_data was called
    last_saved,    \* the dataset of the most recent save_data that returned True
    args,          \* the arguments of the function that is applied on its own
    frame,         \* the locals of that function while it runs
    result         \* what it returned

vars == <<pc, dataFile, backupFile, infoFile, existing, new_data,
          merged, total_added, merged2, total_added2, csv_files,
          run, ended, at_start, pre_save, last_saved, args, frame, result>>

\* what the entry points keep between their steps
locals == <<existing, new_data, merged, total_added>>
\* what only the stand-alone merge and archive runs use
aside == <<merged2, total_added2, csv_files>>
\* the record of a run
run_record == <<run, ended, at_start, pre_save, last_saved>>
disk == <<dataFile, backupFile, infoFile>>
\* a function applied on its own: arguments, locals, returned value
calls == <<args, frame, result>>

----------------------------------------------------------------------------
(* Bounds of the model *)

\* dates range over 1..MaxDate
MaxDate == 2
\* number of records in the dataset file plus the batch, over all games
MaxRecords == 3
\* number of rows of an archive CSV file
MaxRows == 2
\* the feed years of the model are 2024..2024 + MaxYears
MaxYears == 2
\* max_retries ranges over 1..MaxRetries; the callers use the default, 3
MaxRetries == 3
\* number of entries in the feed's answer for one window
MaxEntries == 2

----------------------------------------------------------------------------
(* Configuration *)

GAME_API_CONFIG ==
    [Lotto649      |-> [api_path |-> "/Lotto649Result",      number_count |-> 6, has_special |-> TRUE],
     SuperLotto638 |-> [api_path |-> "/SuperLotto638Result", number_count |-> 6, has_special |-> TRUE],
     DailyCash     |-> [api_path |-> "/DailyCashResult",     number_count |-> 5, has_special |-> FALSE],
     Star3         |-> [api_path |-> "",                     number_count |-> 3, has_special |-> FALSE]]

GameNames == DOMAIN GAME_API_CONFIG

\* the empty dict {}
EmptyDict == <<>>

----------------------------------------------------------------------------
(* Reconciliation engine: merge_and_deduplicate *)

\* list.sort(key=lambda x: x['date']): a stable sort, ascending by date
sort_by_date(draws) ==
    LET place(i) == Cardinality({j \in DOMAIN draws :
                        \/ draws[j].date < draws[i].date
                        \/ draws[j].date = draws[i].date /\ j <= i})
    IN  [k \in DOMAIN draws |-> draws[CHOOSE i \in DOMAIN draws : place(i) = k]]

\* the key set started empty instead of from the game's sequence
existing_periods_unseeded(draws) == {}

\* existing_periods = set(draw.get('period', '') for draw in merged[game_name])
existing_periods(draws) == {draws[i].period : i \in DOMAIN draws}

\* the loop without existing_periods.add(...)
RECURSIVE merge_loop_no_add(_, _, _, _)
merge_loop_no_add(draws, periods, added_count, new_draws) ==
    IF new_draws = <<>>
    THEN [draws |-> draws, added_count |-> added_count]
    ELSE LET draw == Head(new_draws)
         IN  IF draw.period \notin periods
             THEN merge_loop_no_add(Append(draws, draw), periods,
                                    added_count + 1, Tail(new_draws))
             ELSE merge_loop_no_add(draws, periods, added_count, Tail(new_draws))

\* the loop keyed by date, as update.py's merge_data is, instead of by period
RECURSIVE merge_loop_by_date(_, _, _, _)
merge_loop_by_date(draws, periods, added_count, new_draws) ==
    IF new_draws = <<>>
    THEN [draws |-> draws, added_count |-> added_count]
    ELSE LET draw == Head(new_draws)
             dates == {draws[i].date : i \in DOMAIN draws}
         IN  IF draw.date \notin dates
             THEN merge_loop_by_date(Append(draws, draw), periods,
                                     added_count + 1, Tail(new_draws))
             ELSE merge_loop_by_date(draws, periods, added_count, Tail(new_draws))

\* the loop counting every batch record, appended or not
RECURSIVE merge_loop_count_all(_, _, _, _)
merge_loop_count_all(draws, periods, added_count, new_draws) ==
    IF new_draws = <<>>
    THEN [draws |-> draws, added_count |-> added_count]
    ELSE LET draw == Head(new_draws)
         IN  IF draw.period \notin periods
             THEN merge_loop_count_all(Append(draws, draw), periods \cup {draw.period},
                                       added_count + 1, Tail(new_draws))
             ELSE merge_loop_count_all(draws, periods, added_count + 1, Tail(new_draws))

\* for draw in new_draws: append the draw unless its period is in the set
RECURSIVE merge_loop(_, _, _, _)
merge_loop(draws, periods, added_count, new_draws) ==
    IF new_draws = <<>>
    THEN [draws |-> draws, added_count |-> added_count]
    ELSE LET draw == Head(new_draws)
         IN  IF draw.period \notin periods
             THEN merge_loop(Append(draws, draw), periods \cup {draw.period},
                             added_count + 1, Tail(new_draws))
             ELSE merge_loop(draws, periods, added_count, Tail(new_draws))

\* the iteration without the re-sort after the appends
merge_game_unsorted(draws, new_draws) ==
    LET r == merge_loop(draws, existing_periods(draws), 0, new_draws)
    IN  [draws |-> r.draws, added_count |-> r.added_count]

\* one iteration of "for game_name, new_draws in new_data.items()"
merge_game(draws, new_draws) ==
    LET r == merge_loop(draws, existing_periods(draws), 0, new_draws)
    IN  [draws       |-> IF r.added_count > 0 THEN sort_by_date(r.draws) ELSE r.draws,
         added_count |-> r.added_count]

\* sum of f[x] over the x in S
RECURSIVE SumOver(_, _)
SumOver(S, f) ==
    IF S = {} THEN 0
    ELSE LET x == CHOOSE y \in S : TRUE IN f[x] + SumOver(S \ {x}, f)

merge_and_deduplicate(existing_, new_data_) ==
    LET touched == {g \in DOMAIN new_data_ : new_data_[g] # <<>>}
        before(g) == IF g \in DOMAIN existing_ THEN existing_[g] ELSE <<>>
        res(g) == merge_game(before(g), new_data_[g])
        count == [g \in touched |-> res(g).added_count]
    IN  [merged      |-> [g \in (DOMAIN existing_) \cup touched |->
                             IF g \in touched THEN res(g).draws ELSE existing_[g]],
         total_added |-> SumOver(touched, count)]

----------------------------------------------------------------------------
(* Persistence: load_existing_data *)

\* a file is absent, holds a complete JSON document, or holds a partial one
AbsentFile == [state |-> "absent", data |-> EmptyDict]
CompleteFile(data) == [state |-> "complete", data |-> data]

\* initialize.py / common.py load_existing_data; read_ok is whether open and
\* json.load went through without an exception
load_existing_data(file, read_ok) ==
    IF file.state = "complete" /\ read_ok
    THEN [g \in DOMAIN file.data |-> sort_by_date(file.data[g])]
    ELSE [g \in GameNames |-> <<>>]

----------------------------------------------------------------------------
(* The merge on its own: a dataset file and a batch drawn from bounded sets *)

Dates == 1..MaxDate
Periods == {"", "2025001"}

\* the draws a batch or the file can hold for a game: Lotto649 draws with or
\* without a period and with two different results, DailyCash draws without one
DrawRecords(g) ==
    IF g = "Lotto649"
    THEN {[date |-> d, period |-> p, numbers |-> n, special |-> <<7>>] :
             d \in Dates, p \in Periods,
             n \in {<<1, 2, 3, 4, 5, 6>>, <<2, 3, 4, 5, 6, 8>>}}
    ELSE {[date |-> d, period |-> "", numbers |-> <<1, 2, 3, 4, 5>>, special |-> <<>>] :
             d \in Dates}

Lengths == 0..MaxRecords

\* the dataset file holds l1 + l2 records and the batch l3 + l4; a file may lack
\* games (update.py writes only the games it parsed) and so may the batch
InitMerge ==
    /\ pc = "start"
    /\ \E l1, l2, l3, l4 \in Lengths :
          /\ l1 + l2 + l3 + l4 <= MaxRecords
          /\ \E e1 \in [1..l1 -> DrawRecords("Lotto649")],
                e2 \in [1..l2 -> DrawRecords("DailyCash")],
                b1 \in [1..l3 -> DrawRecords("Lotto649")],
                b2 \in [1..l4 -> DrawRecords("DailyCash")] :
                /\ dataFile \in {CompleteFile([g \in GameNames |->
                                      IF g = "Lotto649" THEN e1
                                      ELSE IF g = "DailyCash" THEN e2 ELSE <<>>])}
                                \cup (IF l1 + l2 = 0
                                      THEN {CompleteFile([Lotto649 |-> <<>>]), AbsentFile}
                                      ELSE {})
                /\ new_data \in {[Lotto649 |-> b1, DailyCash |-> b2]}
                                \cup (IF l1 + l2 + l4 = 0 THEN {[Lotto649 |-> b1]} ELSE {})
    /\ backupFile = AbsentFile
    /\ infoFile = AbsentFile
    /\ existing = EmptyDict
    /\ merged = EmptyDict
    /\ total_added = 0
    /\ merged2 = EmptyDict
    /\ total_added2 = 0
    /\ csv_files = <<>>
    /\ run = "merge"
    /\ ended = ""
    /\ at_start = dataFile
    /\ pre_save = dataFile
    /\ last_saved = AbsentFile
    /\ args = <<>>
    /\ frame = <<>>
    /\ result = <<>>

\* existing_data = load_existing_data()
LoadExisting ==
    /\ pc = "start"
    /\ existing' = load_existing_data(dataFile, TRUE)
    /\ pc' = "loaded"
    /\ UNCHANGED <<disk, new_data, merged, total_added, aside, run_record>>
    /\ UNCHANGED calls

\* merged_data, total_added = merge_and_deduplicate(existing_data, new_data)
Merge ==
    /\ pc = "loaded"
    /\ LET r == merge_and_deduplicate(existing, new_data)
       IN  /\ merged' = r.merged
           /\ total_added' = r.total_added
    /\ pc' = "merged"
    /\ UNCHANGED <<disk, existing, new_data, aside, run_record>>
    /\ UNCHANGED calls

\* the same batch merged into the result once more
MergeAgain ==
    /\ pc = "merged"
    /\ LET r == merge_and_deduplicate(merged, new_data)
       IN  /\ merged2' = r.merged
           /\ total_added2' = r.total_added
    /\ pc' = "remerged"
    /\ UNCHANGED <<disk, locals, csv_files, run_record>>
    /\ UNCHANGED calls

NextMerge == LoadExisting \/ Merge \/ MergeAgain

SpecMerge == InitMerge /\ [][NextMerge]_vars

----------------------------------------------------------------------------
(* Properties of the merge *)

\* the game's sequence the merge started from
Before(g) == IF g \in DOMAIN existing THEN existing[g] ELSE <<>>

Occurrences(draws, r) == Cardinality({i \in DOMAIN draws : draws[i] = r})

IsSortedByDate(draws) ==
    \A i, j \in DOMAIN draws : i < j => draws[i].date <= draws[j].date

UniqueNonEmptyPeriods(draws) ==
    \A i, j \in DOMAIN draws :
        (i # j /\ draws[i].period # "") => draws[i].period # draws[j].period

AllPeriodsEmpty(draws) == \A i \in DOMAIN draws : draws[i].period = ""

Merged == pc \in {"merged", "remerged"}

\* C1: merge_and_deduplicate is idempotent: merging the batch again into the
\* merged dataset adds zero records and returns the same per-game sequences.
C1_Idempotent ==
    pc = "remerged" => (total_added2 = 0 /\ merged2 = merged)

C1_Witness ==
    /\ pc = "remerged"
    /\ total_added >= 2
    /\ existing["Lotto649"] # <<>>

\* batch index i of game g is the first one with its period, and the period is
\* not in the sequence the merge started from
FirstSeenNew(g, i) ==
    /\ \A k \in DOMAIN Before(g) : Before(g)[k].period # new_data[g][i].period
    /\ \A j \in 1..(i - 1) : new_data[g][j].period # new_data[g][i].period

\* C2: first-seen wins: the records the merge appends to a game are exactly the
\* batch records whose period was not in the game's sequence, the first in
\* input order for each period, and the count is their number.
C2_FirstSeenWins ==
    Merged =>
        /\ \A g \in DOMAIN new_data : new_data[g] # <<>> =>
              \A r \in DrawRecords(g) :
                 Occurrences(merged[g], r) =
                    Occurrences(Before(g), r)
                    + Cardinality({i \in DOMAIN new_data[g] :
                                      new_data[g][i] = r /\ FirstSeenNew(g, i)})
        /\ total_added =
              Cardinality({<<g, i>> \in (DOMAIN new_data) \X (1..MaxRecords) :
                              i \in DOMAIN new_data[g] /\ FirstSeenNew(g, i)})

\* two records of period "2025001" with different numbers merged into an
\* empty dataset: one record, the first, and a count of 1
C2_Witness ==
    /\ pc = "merged"
    /\ \A g \in DOMAIN existing : existing[g] = <<>>
    /\ DOMAIN new_data = {"Lotto649"}
    /\ Len(new_data["Lotto649"]) = 2
    /\ new_data["Lotto649"][1].period = "2025001"
    /\ new_data["Lotto649"][2].period = "2025001"
    /\ new_data["Lotto649"][1].numbers # new_data["Lotto649"][2].numbers
    /\ merged["Lotto649"] = <<new_data["Lotto649"][1]>>
    /\ total_added = 1

\* C3: after a merge every game's sequence of the returned dataset is
\* non-decreasing by date, also for a game the batch added nothing to.
C3_SortedByDate ==
    /\ Merged => \A g \in DOMAIN merged : IsSortedByDate(merged[g])
    /\ pc = "remerged" => \A g \in DOMAIN merged2 : IsSortedByDate(merged2[g])

\* the file held the game in descending order, and the batch added nothing to it
C3_Witness ==
    /\ pc = "merged"
    /\ dataFile.state = "complete"
    /\ ~IsSortedByDate(dataFile.data["Lotto649"])
    /\ new_data["Lotto649"] # <<>>
    /\ merged["Lotto649"] = existing["Lotto649"]

\* C4: if no two records of a game share a non-empty period before the merge,
\* none do after it.
C4_PeriodsStayUnique ==
    Merged => \A g \in DOMAIN merged :
                 UniqueNonEmptyPeriods(Before(g)) => UniqueNonEmptyPeriods(merged[g])

\* a batch repeating a period, one already in the dataset or twice in the batch
C4_Witness ==
    /\ pc = "merged"
    /\ existing["Lotto649"] # <<>>
    /\ UniqueNonEmptyPeriods(existing["Lotto649"])
    /\ Len(new_data["Lotto649"]) = 2
    /\ new_data["Lotto649"][1].period = "2025001"
    /\ new_data["Lotto649"][2].period = "2025001"
    /\ new_data["Lotto649"][1].date # new_data["Lotto649"][2].date
    /\ Len(merged["Lotto649"]) = Len(existing["Lotto649"]) + 1

\* batch index i of game g is the first one with its date, and the date is not
\* in the sequence the merge started from
FirstSeenNewDate(g, i) ==
    /\ \A k \in DOMAIN Before(g) : Before(g)[k].date # new_data[g][i].date
    /\ \A j \in 1..(i - 1) : new_data[g][j].date # new_data[g][i].date

\* C5: when every record of a game, existing and incoming, has an empty period,
\* the merge de-duplicates by date: every batch record whose date is not yet
\* present is appended, the first one per date.
C5_DedupByDateWhenNoPeriod ==
    Merged =>
        \A g \in DOMAIN new_data :
            (new_data[g] # <<>> /\ AllPeriodsEmpty(Before(g)) /\ AllPeriodsEmpty(new_data[g])) =>
                Len(merged[g]) = Len(Before(g))
                    + Cardinality({i \in DOMAIN new_data[g] : FirstSeenNewDate(g, i)})

\* C6: the count returned is the number of records added: the sum over the
\* games of the growth of the game's sequence.
C6_CountIsGrowth ==
    Merged =>
        total_added =
            SumOver(DOMAIN merged, [g \in DOMAIN merged |-> Len(merged[g]) - Len(Before(g))])

\* two games grow, and one batch record is turned away
C6_Witness ==
    /\ pc = "merged"
    /\ "DailyCash" \notin DOMAIN existing
    /\ "DailyCash" \in DOMAIN merged
    /\ Len(merged["Lotto649"]) > Len(Before("Lotto649"))
    /\ Len(merged["DailyCash"]) > 0
    /\ Len(new_data["Lotto649"]) + Len(new_data["DailyCash"]) > total_added

----------------------------------------------------------------------------
(* Archive ingestor: parse_taiwan_lottery_csv and batch_process_zip_files *)

(* A CSV file is [name, decodable, rows]. A row is [game_name, period, date,   *)
(* cols]: columns 0 and 1, the outcome of parsing column 2 (0 when no date     *)
(* format matches, else the day), and the cells from column 6 on, each <<>>    *)
(* (blank or not an integer) or <<n>>. Columns 3 to 5 are sales columns.       *)

\* the columns and the range the parser reads the primary numbers from
NUMBER_RULES ==
    [Lotto649      |-> [columns |-> 6, lo |-> 1, hi |-> 49, special |-> TRUE,  sorted |-> TRUE],
     SuperLotto638 |-> [columns |-> 6, lo |-> 1, hi |-> 38, special |-> TRUE,  sorted |-> TRUE],
     DailyCash     |-> [columns |-> 5, lo |-> 1, hi |-> 39, special |-> FALSE, sorted |-> TRUE],
     Star3         |-> [columns |-> 3, lo |-> 0, hi |-> 9,  special |-> FALSE, sorted |-> FALSE]]

\* len(row): six leading columns and the cells
RowLen(row) == 6 + Len(row.cols)

\* numbers.sort(): position k holds the number that has fewer than k numbers
\* below it and at least k numbers at or below it
sort_numbers(numbers) ==
    [k \in DOMAIN numbers |->
        CHOOSE x \in {numbers[i] : i \in DOMAIN numbers} :
            /\ Cardinality({i \in DOMAIN numbers : numbers[i] < x}) < k
            /\ k <= Cardinality({i \in DOMAIN numbers : numbers[i] <= x})]

\* for col_idx in range(6, 6 + columns): keep the integer cells within range
RECURSIVE accepted_numbers(_, _, _)
accepted_numbers(row, rule, idx) ==
    IF idx > rule.columns THEN <<>>
    ELSE LET rest == accepted_numbers(row, rule, idx + 1)
         IN  IF /\ idx <= Len(row.cols)
                /\ row.cols[idx] # <<>>
                /\ rule.lo <= row.cols[idx][1]
                /\ row.cols[idx][1] <= rule.hi
             THEN <<row.cols[idx][1]>> \o rest
             ELSE rest

\* the body of "for i in range(start_row, len(rows))": <<>> when the row is
\* skipped, else the one draw it yields
parse_row(row) ==
    IF RowLen(row) < 7 THEN <<>>
    ELSE IF row.game_name \notin GameNames THEN <<>>
    ELSE IF row.date = 0 THEN <<>>
    ELSE LET rule    == NUMBER_RULES[row.game_name]
             numbers == accepted_numbers(row, rule, 1)
             special == IF rule.special /\ RowLen(row) > 12 THEN row.cols[7] ELSE <<>>
         IN  IF Len(numbers) # GAME_API_CONFIG[row.game_name].number_count THEN <<>>
             ELSE <<[date    |-> row.date,
                     period  |-> row.period,
                     numbers |-> IF rule.sorted THEN sort_numbers(numbers) ELSE numbers,
                     special |-> special]>>

RECURSIVE parse_rows(_)
parse_rows(rows) ==
    IF rows = <<>> THEN <<>> ELSE parse_row(Head(rows)) \o parse_rows(Tail(rows))

\* parse_taiwan_lottery_csv: the draws of one file, sorted by date
parse_taiwan_lottery_csv(file) ==
    IF ~file.decodable THEN <<>>
    ELSE IF file.rows = <<>> THEN <<>>
    ELSE IF RowLen(file.rows[1]) < 10 THEN <<>>
    ELSE LET start_row == IF file.rows[1].game_name = "GameNameHeader" THEN 2 ELSE 1
         IN  sort_by_date(parse_rows(SubSeq(file.rows, start_row, Len(file.rows))))

\* the game a CSV file is filed under, from the tokens of its name; the tests
\* are made in this order and "lotto" is a token of the first
detect_game(csv_filename) ==
    IF csv_filename \in {"lotto649.csv", "superlotto638.csv"} THEN "Lotto649"
    ELSE IF csv_filename = "super638.csv" THEN "SuperLotto638"
    ELSE IF csv_filename = "daily539.csv" THEN "DailyCash"
    ELSE IF csv_filename = "3star.csv" THEN "Star3"
    ELSE "None"

\* all_data after the loops over the ZIP and CSV files, before de-duplication
RECURSIVE collect_draws(_)
collect_draws(files) ==
    IF files = <<>> THEN [g \in GameNames |-> <<>>]
    ELSE LET n     == Len(files)
             acc   == collect_draws(SubSeq(files, 1, n - 1))
             draws == parse_taiwan_lottery_csv(files[n])
             game  == detect_game(files[n].name)
         IN  IF game \in GameNames
             THEN [acc EXCEPT ![game] = acc[game] \o draws]
             ELSE acc

\* unique_draws = {}; for draw in draws: if period: unique_draws[period] = draw;
\* list(unique_draws.values()): a dict keeps the place of a key's first
\* insertion and the value of its last assignment
RECURSIVE unique_draws(_)
unique_draws(draws) ==
    IF draws = <<>> THEN <<>>
    ELSE LET n    == Len(draws)
             acc  == unique_draws(SubSeq(draws, 1, n - 1))
             draw == draws[n]
         IN  IF draw.period = "" THEN acc
             ELSE IF \E i \in DOMAIN acc : acc[i].period = draw.period
                  THEN [i \in DOMAIN acc |->
                           IF acc[i].period = draw.period THEN draw ELSE acc[i]]
                  ELSE Append(acc, draw)

batch_process_zip_files(files) ==
    LET all_data == collect_draws(files)
    IN  [g \in GameNames |->
            IF all_data[g] # <<>> THEN sort_by_date(unique_draws(all_data[g])) ELSE <<>>]

----------------------------------------------------------------------------
(* The archive path: manual_import_from_zip up to the merge *)

RowKinds ==
    {[game_name |-> "Lotto649",  cols |-> <<<<1>>, <<2>>, <<3>>, <<4>>, <<5>>, <<6>>, <<7>>>>],
     [game_name |-> "Lotto649",  cols |-> <<<<8>>, <<2>>, <<3>>, <<4>>, <<5>>, <<6>>, <<7>>>>],
     [game_name |-> "Lotto649",  cols |-> <<<<1>>, <<2>>, <<3>>, <<4>>, <<5>>, <<50>>, <<7>>>>],
     [game_name |-> "DailyCash", cols |-> <<<<1>>, <<2>>, <<3>>, <<4>>, <<5>>>>],
     [game_name |-> "SuperLotto638", cols |-> <<<<1>>, <<2>>, <<3>>, <<4>>, <<5>>, <<6>>, <<7>>>>]}

ArchiveRows ==
    {[game_name |-> k.game_name, period |-> p, date |-> d, cols |-> k.cols] :
        k \in RowKinds, p \in Periods, d \in 0..MaxDate}

CsvNames == {"lotto649.csv", "superlotto638.csv", "daily539.csv", "other.csv"}

InitArchive ==
    /\ pc = "import"
    /\ \E name \in CsvNames, n \in 0..MaxRows :
          \E rows \in [1..n -> ArchiveRows] :
              csv_files = <<[name |-> name, decodable |-> TRUE, rows |-> rows]>>
    /\ dataFile = AbsentFile
    /\ backupFile = AbsentFile
    /\ infoFile = AbsentFile
    /\ existing = EmptyDict
    /\ new_data = EmptyDict
    /\ merged = EmptyDict
    /\ total_added = 0
    /\ merged2 = EmptyDict
    /\ total_added2 = 0
    /\ run = "import"
    /\ ended = ""
    /\ at_start = dataFile
    /\ pre_save = dataFile
    /\ last_saved = AbsentFile
    /\ args = <<>>
    /\ frame = <<>>
    /\ result = <<>>

\* imported_data = batch_process_zip_files(zip_dir)
BatchProcess ==
    /\ pc = "import"
    /\ new_data' = batch_process_zip_files(csv_files)
    /\ pc' = "batch"
    /\ UNCHANGED <<disk, existing, merged, total_added, aside, run_record>>
    /\ UNCHANGED calls

\* nothing imported: manual_import_from_zip returns False before the merge
ImportNothing ==
    /\ pc = "batch"
    /\ \A g \in DOMAIN new_data : new_data[g] = <<>>
    /\ pc' = "import_failed"
    /\ UNCHANGED <<disk, locals, aside, run_record>>
    /\ UNCHANGED calls

\* existing_data = load_existing_data(); merge_and_deduplicate(existing_data, imported_data)
ImportMerge ==
    /\ pc = "batch"
    /\ \E g \in DOMAIN new_data : new_data[g] # <<>>
    /\ LET loaded == load_existing_data(dataFile, TRUE)
           r      == merge_and_deduplicate(loaded, new_data)
       IN  /\ existing' = loaded
           /\ merged' = r.merged
           /\ total_added' = r.total_added
    /\ pc' = "imported"
    /\ UNCHANGED <<disk, new_data, aside, run_record>>
    /\ UNCHANGED calls

NextArchive == BatchProcess \/ ImportNothing \/ ImportMerge

SpecArchive == InitArchive /\ [][NextArchive]_vars

\* C7: from an empty dataset, an archive file of a game whose rows are a record
\* of period "2025001" followed by a row of the same period with different
\* numbers leaves exactly one record of that period after batch_process_zip_files
\* and merge_and_deduplicate: the first-seen row, with a count added of 1.
C7_ArchiveFirstSeenWins ==
    LET file == csv_files[1]
        game == detect_game(file.name)
    IN  (/\ pc = "imported"
         /\ game \in GameNames
         /\ Len(file.rows) = 2
         /\ file.rows[1].game_name = game
         /\ file.rows[2].game_name = game
         /\ parse_row(file.rows[1]) # <<>>
         /\ parse_row(file.rows[2]) # <<>>
         /\ file.rows[1].period = "2025001"
         /\ file.rows[2].period = "2025001"
         /\ parse_row(file.rows[1])[1].numbers # parse_row(file.rows[2])[1].numbers)
        => (/\ merged[game] = parse_row(file.rows[1])
            /\ total_added = 1)

\* C17: after batch_process_zip_files every record filed under a game has
\* that game's number of primary numbers, all within that game's range: the
\* game of the file name is the game whose rules normalized the row.
C17_FiledUnderOwnGame ==
    pc = "batch" =>
        \A g \in DOMAIN new_data :
            \A i \in DOMAIN new_data[g] :
                /\ Len(new_data[g][i].numbers) = GAME_API_CONFIG[g].number_count
                /\ \A k \in DOMAIN new_data[g][i].numbers :
                      /\ NUMBER_RULES[g].lo <= new_data[g][i].numbers[k]
                      /\ new_data[g][i].numbers[k] <= NUMBER_RULES[g].hi

----------------------------------------------------------------------------
(* update.py: load_existing_data, merge_data, create_sample_data *)

\* list.sort(key=lambda x: x['date'], reverse=True): stable, descending by date
RECURSIVE sort_by_date_reverse(_)
sort_by_date_reverse(draws) ==
    IF draws = <<>> THEN <<>>
    ELSE LET n    == Len(draws)
             rest == sort_by_date_reverse(SubSeq(draws, 1, n - 1))
             x    == draws[n]
             k    == Cardinality({i \in DOMAIN rest : rest[i].date >= x.date})
         IN  SubSeq(rest, 1, k) \o <<x>> \o SubSeq(rest, k + 1, Len(rest))

\* update.py load_existing_data: the document as it is, or {}
update_load_existing_data(file, read_ok) ==
    IF file.state = "complete" /\ read_ok THEN file.data ELSE EmptyDict

\* one iteration of merge_data's loop: the dates are collected once, before
\* the new records are appended
merge_data_game(records, new_records) ==
    LET existing_dates == {records[i].date : i \in DOMAIN records}
        fresh(record)  == record.date \notin existing_dates
    IN  sort_by_date_reverse(records \o SelectSeq(new_records, fresh))

merge_data(existing_data, new_data_) ==
    [g \in (DOMAIN existing_data) \cup (DOMAIN new_data_) |->
        IF g \in DOMAIN new_data_
        THEN merge_data_game(IF g \in DOMAIN existing_data THEN existing_data[g] ELSE <<>>,
                             new_data_[g])
        ELSE existing_data[g]]

\* a record of update.py: a date and numbers, no period and no special
UpdateRecord(date, numbers) ==
    [date |-> date, period |-> "", numbers |-> numbers, special |-> <<>>]

\* datetime.now(): the last day of the model
Today == MaxDate

\* create_sample_data; the second Lotto649 sample is dated a week before today,
\* here the day before
create_sample_data ==
    [Lotto649      |-> <<UpdateRecord(Today, <<10, 25, 34, 35, 42, 48>>),
                         UpdateRecord(Today - 1, <<5, 12, 23, 34, 41, 49>>)>>,
     SuperLotto638 |-> <<UpdateRecord(Today, <<2, 9, 15, 22, 29, 36, 7>>)>>,
     DailyCash     |-> <<UpdateRecord(Today, <<3, 8, 17, 25, 39>>)>>]

----------------------------------------------------------------------------
(* The entry points and save_data, step by step *)

\* a file opened for writing and not written to its end
PartialFile == [state |-> "partial", data |-> EmptyDict]

\* total_records of update-info.json
total_records(data) == SumOver(DOMAIN data, [g \in DOMAIN data |-> Len(data[g])])

\* the period the feed gives the draw of a day
PeriodOf(d) == IF d = 1 THEN "2025001" ELSE IF d = 2 THEN "2025002" ELSE "2025003"

\* what the results feed can return for a game: one draw a day
FeedDraws ==
    {[date |-> d, period |-> PeriodOf(d), numbers |-> <<1, 2, 3, 4, 5, 6>>,
      special |-> <<7>>] : d \in Dates}

\* all_new_data of main: crawl_game_incrementally keeps the draws of the feed
\* whose date no existing draw of the game has; no game with new draws, or
\* Lotto649 with one
CrawlResults(existing_data) ==
    {EmptyDict} \cup
    {[Lotto649 |-> <<draw>>] : draw \in
        {d \in FeedDraws :
            \A i \in DOMAIN existing_data["Lotto649"] :
                existing_data["Lotto649"][i].date # d.date}}

\* the archives a run can find in zip_files: none, or one Lotto649 file
RunArchives ==
    {<<>>,
     <<[name |-> "lotto649.csv", decodable |-> TRUE,
        rows |-> <<[game_name |-> "Lotto649", period |-> "2025001", date |-> 1,
                    cols |-> <<<<1>>, <<2>>, <<3>>, <<4>>, <<5>>, <<6>>, <<7>>>>]>>]>>}

\* what update.py's extract_and_parse_zip can return when it finds data
UpdateBatches ==
    {[Lotto649 |-> <<UpdateRecord(d, <<1, 2, 3, 4, 5, 6>>)>>] : d \in Dates}

SavePcs == {"save_backup", "save_backup_copy", "save_open", "save_dump", "save_info"}

InitRuns ==
    /\ pc = "idle"
    /\ dataFile = AbsentFile
    /\ backupFile = AbsentFile
    /\ infoFile = AbsentFile
    /\ existing = EmptyDict
    /\ new_data = EmptyDict
    /\ merged = EmptyDict
    /\ total_added = 0
    /\ merged2 = EmptyDict
    /\ total_added2 = 0
    /\ csv_files = <<>>
    /\ run = "none"
    /\ ended = ""
    /\ at_start = AbsentFile
    /\ pre_save = AbsentFile
    /\ last_saved = AbsentFile
    /\ args = <<>>
    /\ frame = <<>>
    /\ result = <<>>

\* the entry point returns or is stopped: its locals are gone
Exit(how) ==
    /\ pc' = "done"
    /\ ended' = how
    /\ existing' = EmptyDict
    /\ new_data' = EmptyDict
    /\ merged' = EmptyDict
    /\ total_added' = 0
    /\ csv_files' = <<>>
    /\ UNCHANGED <<disk, merged2, total_added2, run, at_start, pre_save, last_saved>>

\* main goes on after manual_import_from_zip has returned
BackToMain ==
    /\ pc' = "main_load"
    /\ run' = "main"
    /\ UNCHANGED <<disk, locals, aside, ended, at_start, pre_save, last_saved>>

\* initialize.py main, the dataset file exists or the import is declined
StartMain ==
    /\ pc = "idle"
    /\ pc' = "main_load"
    /\ run' = "main"
    /\ ended' = ""
    /\ at_start' = dataFile
    /\ UNCHANGED <<disk, locals, aside, pre_save, last_saved>>
    /\ UNCHANGED calls

\* initialize.py main, no dataset file and the import accepted: main calls
\* manual_import_from_zip first
StartMainWithImport ==
    /\ pc = "idle"
    /\ dataFile.state = "absent"
    /\ \E archives \in RunArchives : csv_files' = archives
    /\ pc' = "import"
    /\ run' = "main_import"
    /\ ended' = ""
    /\ at_start' = dataFile
    /\ UNCHANGED <<disk, locals, merged2, total_added2, pre_save, last_saved>>
    /\ UNCHANGED calls

\* initialize.py --import: manual_import_from_zip
StartImport ==
    /\ pc = "idle"
    /\ \E archives \in RunArchives : csv_files' = archives
    /\ pc' = "import"
    /\ run' = "import"
    /\ ended' = ""
    /\ at_start' = dataFile
    /\ UNCHANGED <<disk, locals, merged2, total_added2, pre_save, last_saved>>
    /\ UNCHANGED calls

\* update.py main
StartUpdate ==
    /\ pc = "idle"
    /\ pc' = "update_fetch"
    /\ run' = "update"
    /\ ended' = ""
    /\ at_start' = dataFile
    /\ UNCHANGED <<disk, locals, aside, pre_save, last_saved>>
    /\ UNCHANGED calls

\* manual_import_from_zip returns without saving: False when nothing was
\* imported, True when the merge added nothing; main goes on to its own update
ImportReturn ==
    /\ \/ pc = "import_failed"
       \/ pc = "imported" /\ total_added = 0
    /\ IF run = "main_import"
       THEN BackToMain
       ELSE Exit(IF pc = "imported" THEN "ok" ELSE "import_failed")
    /\ UNCHANGED calls

\* manual_import_from_zip: if total_added > 0: save_data(merged_data)
ImportSave ==
    /\ pc = "imported"
    /\ total_added > 0
    /\ pc' = "save_backup"
    /\ pre_save' = dataFile
    /\ UNCHANGED <<disk, locals, aside, run, ended, at_start, last_saved>>
    /\ UNCHANGED calls

\* main: existing_data = load_existing_data(); the read may raise
MainLoad ==
    /\ pc = "main_load"
    /\ \E read_ok \in BOOLEAN : existing' = load_existing_data(dataFile, read_ok)
    /\ pc' = "main_crawl"
    /\ UNCHANGED <<disk, new_data, merged, total_added, aside, run_record>>
    /\ UNCHANGED calls

\* main: the crawl of every game, then merge_and_deduplicate when there are new
\* draws; save_data is called with the merged dataset or with existing_data
MainCrawlMerge ==
    /\ pc = "main_crawl"
    /\ \E all_new_data \in CrawlResults(existing) :
          /\ new_data' = all_new_data
          /\ IF all_new_data # EmptyDict
             THEN LET r == merge_and_deduplicate(existing, all_new_data)
                  IN  /\ merged' = r.merged
                      /\ total_added' = r.total_added
             ELSE /\ merged' = existing
                  /\ total_added' = 0
    /\ pc' = "save_backup"
    /\ pre_save' = dataFile
    /\ UNCHANGED <<disk, existing, aside, run, ended, at_start, last_saved>>
    /\ UNCHANGED calls

\* update.py main: no download link, no ZIP file or nothing parsed: the sample
\* data is saved in place of the dataset
UpdateFallback ==
    /\ pc = "update_fetch"
    /\ merged' = create_sample_data
    /\ pc' = "save_open"
    /\ pre_save' = dataFile
    /\ UNCHANGED <<disk, existing, new_data, total_added, aside, run, ended, at_start, last_saved>>
    /\ UNCHANGED calls

\* update.py main: new_data = extract_and_parse_zip(zip_buffer)
UpdateFetched ==
    /\ pc = "update_fetch"
    /\ \E batch \in UpdateBatches : new_data' = batch
    /\ pc' = "update_merge"
    /\ UNCHANGED <<disk, existing, merged, total_added, aside, run_record>>
    /\ UNCHANGED calls

\* update.py main: load_existing_data, merge_data, then save_data
UpdateMerge ==
    /\ pc = "update_merge"
    /\ \E read_ok \in BOOLEAN :
          LET loaded == update_load_existing_data(dataFile, read_ok)
          IN  /\ existing' = loaded
              /\ merged' = merge_data(loaded, new_data)
    /\ pc' = "save_open"
    /\ pre_save' = dataFile
    /\ UNCHANGED <<disk, new_data, total_added, aside, run, ended, at_start, last_saved>>
    /\ UNCHANGED calls

\* initialize.py save_data: if os.path.exists(data file): shutil.copy2 opens the backup
SaveBackupOpen ==
    /\ pc = "save_backup"
    /\ IF dataFile.state # "absent"
       THEN /\ backupFile' = PartialFile
            /\ pc' = "save_backup_copy"
       ELSE /\ backupFile' = backupFile
            /\ pc' = "save_open"
    /\ UNCHANGED <<dataFile, infoFile, locals, aside, run_record>>
    /\ UNCHANGED calls

\* shutil.copy2 has copied the dataset file
SaveBackupCopy ==
    /\ pc = "save_backup_copy"
    /\ backupFile' = dataFile
    /\ pc' = "save_open"
    /\ UNCHANGED <<dataFile, infoFile, locals, aside, run_record>>
    /\ UNCHANGED calls

\* open('data/lottery-data.json', 'w') truncates the file
SaveOpen ==
    /\ pc = "save_open"
    /\ dataFile' = PartialFile
    /\ pc' = "save_dump"
    /\ UNCHANGED <<backupFile, infoFile, locals, aside, run_record>>
    /\ UNCHANGED calls

\* json.dump(data, f) has written the whole document
SaveDump ==
    /\ pc = "save_dump"
    /\ dataFile' = CompleteFile(merged)
    /\ pc' = "save_info"
    /\ UNCHANGED <<backupFile, infoFile, locals, aside, run_record>>
    /\ UNCHANGED calls

\* update-info.json is written: save_data has saved the dataset and returns True
SaveInfoWritten ==
    /\ pc = "save_info"
    /\ infoFile' = CompleteFile([total_records |-> total_records(merged)])
    /\ pc' = "saved"
    /\ UNCHANGED <<dataFile, backupFile, locals, aside, run, ended, at_start, pre_save>>
    /\ UNCHANGED calls

SaveInfo ==
    /\ SaveInfoWritten
    /\ UNCHANGED last_saved

\* save_data returns True; manual_import_from_zip called by main returns to it
SaveReturn ==
    /\ pc = "saved"
    /\ IF run = "main_import" THEN BackToMain ELSE Exit("ok")
    /\ UNCHANGED calls

\* the result of save_data not looked at: the run goes on as after a save
SaveFailsUnnoticed ==
    /\ pc \in SavePcs
    /\ IF run = "main_import" THEN BackToMain ELSE Exit("ok")
    /\ UNCHANGED calls

\* a storage call of save_data raises: save_data returns False with the files as
\* they are; the run is reported as failed
SaveFails ==
    /\ pc \in SavePcs
    /\ IF run = "main_import" THEN BackToMain ELSE Exit("save_failed")
    /\ UNCHANGED calls

\* KeyboardInterrupt: the entry point stops where it is
Interrupt ==
    /\ pc \notin {"idle", "done"}
    /\ Exit(IF pc \in SavePcs THEN "interrupted_in_save" ELSE "interrupted")
    /\ UNCHANGED calls

\* the process has exited; the next run starts from the files alone
NextRun ==
    /\ pc = "done"
    /\ pc' = "idle"
    /\ run' = "none"
    /\ ended' = ""
    /\ at_start' = AbsentFile
    /\ pre_save' = AbsentFile
    /\ UNCHANGED <<disk, locals, aside, last_saved>>
    /\ UNCHANGED calls

NextRuns ==
    \/ StartMain \/ StartMainWithImport \/ StartImport \/ StartUpdate
    \/ BatchProcess \/ ImportNothing \/ ImportMerge \/ ImportReturn \/ ImportSave
    \/ MainLoad \/ MainCrawlMerge
    \/ UpdateFallback \/ UpdateFetched \/ UpdateMerge
    \/ SaveBackupOpen \/ SaveBackupCopy \/ SaveOpen \/ SaveDump \/ SaveInfo
    \/ SaveReturn \/ SaveFails \/ Interrupt \/ NextRun

SpecRuns == InitRuns /\ [][NextRuns]_vars

----------------------------------------------------------------------------
(* The persisted dataset across runs *)

\* every record of the document `before` is a record of the same game in `after`
KeepsRecords(before, after) ==
    \A g \in DOMAIN before :
        \A i \in DOMAIN before[g] :
            /\ g \in DOMAIN after
            /\ \E j \in DOMAIN after[g] : after[g][j] = before[g][i]

\* C8: the persisted dataset is append-only: when the save of a run has
\* completed, every record the dataset file held before the run is still in the
\* dataset file, whatever the loading, the downloads and the feed did.
C8_AppendOnly ==
    (/\ pc = "saved"
     /\ at_start.state = "complete"
     /\ dataFile.state = "complete")
        => KeepsRecords(at_start.data, dataFile.data)

\* C9: a save that does not complete leaves the persisted dataset untouched:
\* when the run was cancelled inside save_data, or a storage call of save_data
\* failed, the dataset file still holds the complete document it held when
\* save_data was entered.
C9_FailedSaveLeavesFile ==
    (/\ pc = "done"
     /\ ended \in {"interrupted_in_save", "save_failed"}
     /\ pre_save.state = "complete")
        => dataFile = pre_save

\* C10: whenever save_data overwrites an existing dataset file, the backup file
\* holds, after the save, the content the dataset file had immediately before
\* that save.
C10_BackupRetained ==
    (/\ pc = "saved"
     /\ pre_save.state = "complete")
        => backupFile = pre_save

\* the step in which a run of initialize.py main ends
MainEnds == run = "main" /\ pc # "done" /\ pc' = "done"

\* C23: a run of initialize.py main reports success exactly when its final
\* save succeeds, whether or not the run obtained new records: it reports
\* success only from a completed save_data, with the dataset file and the
\* update info written, and it reports failure only because a storage call of
\* save_data failed or because the run was stopped.
C23_SuccessIffSaveSucceeds ==
    [][MainEnds =>
          /\ ended' = "ok" =>
                /\ pc = "saved"
                /\ dataFile = CompleteFile(merged)
                /\ infoFile.state = "complete"
          /\ ended' # "ok" =>
                \/ ended' = "save_failed" /\ pc \in SavePcs
                \/ ended' = "interrupted_in_save" /\ pc \in SavePcs
                \/ ended' = "interrupted" /\ pc \notin SavePcs
          /\ (pc = "saved" /\ ended' # "interrupted") => ended' = "ok"]_vars

\* a run that found the dataset file, obtained no new record and saved it as
\* it was: a success
C23_Witness ==
    /\ pc = "done"
    /\ run = "main"
    /\ ended = "ok"
    /\ at_start.state = "complete"
    /\ dataFile = at_start

----------------------------------------------------------------------------
(* Functions applied on their own: what the rest of the program is meanwhile *)

\* every variable of the entry points
program == <<disk, locals, aside, run_record>>

\* no entry point is running and there are no files
NoProgram ==
    /\ dataFile = AbsentFile
    /\ backupFile = AbsentFile
    /\ infoFile = AbsentFile
    /\ existing = EmptyDict
    /\ new_data = EmptyDict
    /\ merged = EmptyDict
    /\ total_added = 0
    /\ merged2 = EmptyDict
    /\ total_added2 = 0
    /\ csv_files = <<>>
    /\ run = "none"
    /\ ended = ""
    /\ at_start = AbsentFile
    /\ pre_save = AbsentFile
    /\ last_saved = AbsentFile

----------------------------------------------------------------------------
(* Feed ingestor: get_months_to_fetch *)

(* A datetime is [year, month, day]. get_months_to_fetch compares the first    *)
(* days of two months; the time of day and the UTC offset its operands carry   *)
(* differ by less than a day and never change the outcome of a comparison of   *)
(* two different months, and for the same month current <= end holds.          *)

\* the start month taken one month too early
start_date_same_month(latest_date) ==
    IF latest_date.year <= 2000
    THEN [year |-> 2025, month |-> 9, day |-> 1]
    ELSE [latest_date EXCEPT !.day = 1]

\* start_date of get_months_to_fetch
start_date(latest_date) ==
    IF latest_date.year <= 2000
    THEN [year |-> 2025, month |-> 9, day |-> 1]
    ELSE IF latest_date.month = 12
         THEN [year |-> latest_date.year + 1, month |-> 1, day |-> 1]
         ELSE [latest_date EXCEPT !.month = latest_date.month + 1, !.day = 1]

\* current > end, for two first days of a month
LaterMonth(current, end) ==
    \/ current.year > end.year
    \/ current.year = end.year /\ current.month > end.month

\* the month after current
next_month(current) ==
    IF current.month = 12
    THEN [current EXCEPT !.year = current.year + 1, !.month = 1]
    ELSE [current EXCEPT !.month = current.month + 1]

\* datetime.min, the latest date of a game without usable local draws
DatetimeMin == [year |-> 1, month |-> 1, day |-> 1]

\* the years of the model: the years around the threshold of the code and the
\* years of the feed
LatestYears == {2000, 2001} \cup (2024..(2024 + MaxYears))
TodayYears == 2025..(2024 + MaxYears)

LatestDates ==
    {DatetimeMin} \cup
    {[year |-> y, month |-> m, day |-> d] : y \in LatestYears, m \in 1..12, d \in {1, 28}}

InitMonths ==
    /\ pc = "call"
    /\ \E latest_date \in LatestDates, ty \in TodayYears, tm \in 1..12 :
          args = [latest_date |-> latest_date,
                  today       |-> [year |-> ty, month |-> tm, day |-> 15]]
    /\ frame = <<>>
    /\ result = <<>>
    /\ NoProgram

\* get_months_to_fetch up to its loop: start_date, current and end; it returns
\* at once when current > end
MonthsStart ==
    /\ pc = "call"
    /\ LET current == [start_date(args.latest_date) EXCEPT !.day = 1]
           end     == [args.today EXCEPT !.day = 1]
       IN  IF LaterMonth(current, end)
           THEN /\ result' = <<>>
                /\ frame' = frame
                /\ pc' = "returned"
           ELSE /\ frame' = [current |-> current, end |-> end, months_needed |-> <<>>]
                /\ result' = result
                /\ pc' = "loop"
    /\ UNCHANGED <<args, program>>

\* while current <= end: months_needed.append((current.year, current.month))
\* and current moves to the next month
MonthsAppend ==
    /\ pc = "loop"
    /\ ~LaterMonth(frame.current, frame.end)
    /\ frame' = [frame EXCEPT
                    !.months_needed = Append(@, <<frame.current.year, frame.current.month>>),
                    !.current = next_month(frame.current)]
    /\ UNCHANGED <<pc, args, result, program>>

\* the loop has ended: return months_needed
MonthsReturn ==
    /\ pc = "loop"
    /\ LaterMonth(frame.current, frame.end)
    /\ result' = frame.months_needed
    /\ pc' = "returned"
    /\ UNCHANGED <<args, frame, program>>

NextMonths == MonthsStart \/ MonthsAppend \/ MonthsReturn

SpecMonths == InitMonths /\ [][NextMonths]_vars

\* the number of a month, counted from year 0
MonthIndex(year, month) == year * 12 + month - 1

\* `months` is the months numbered first..last: ascending, no gap, no repeat
ConsecutiveMonths(months, first, last) ==
    IF first > last
    THEN months = <<>>
    ELSE /\ Len(months) = last - first + 1
         /\ \A i \in DOMAIN months :
               /\ months[i][2] \in 1..12
               /\ MonthIndex(months[i][1], months[i][2]) = first + i - 1

----------------------------------------------------------------------------
(* Feed ingestor: safe_api_request *)

(* What one requests.get can come to: status 200 with a JSON body, status    *)
(* 404, another status, or a RequestException (no connection, a timeout      *)
(* after 15 seconds, a body of status 200 that is not JSON).                 *)
Outcomes == {"ok", "not_found", "error_status", "exception"}

\* None
None == <<"None">>

RECURSIVE Power2(_)
Power2(k) == IF k = 0 THEN 1 ELSE 2 * Power2(k - 1)

\* the guard of the sleep, without the test of the last attempt
sleeps_after_any(attempt, max_retries) == TRUE

\* if attempt < max_retries - 1: time.sleep(2 ** attempt)
sleeps_after(attempt, max_retries) == attempt < max_retries - 1

InitRequest ==
    /\ pc = "request"
    /\ \E g \in {n \in GameNames : GAME_API_CONFIG[n].api_path # ""},
          max_retries \in 1..MaxRetries :
          args = [url |-> GAME_API_CONFIG[g].api_path, max_retries |-> max_retries]
    /\ frame = [attempt |-> 0, requests |-> <<>>, sleeps |-> <<>>]
    /\ result = <<>>
    /\ NoProgram

\* one pass of "for attempt in range(max_retries)" up to the sleep: the request
\* and what it comes to
RequestAttempt ==
    /\ pc = "request"
    /\ frame.attempt < args.max_retries
    /\ \E outcome \in Outcomes :
          /\ frame' = [frame EXCEPT !.requests = Append(@, outcome)]
          /\ IF outcome = "ok"
             THEN /\ result' = <<"json">>
                  /\ pc' = "returned"
             ELSE IF outcome = "not_found"
             THEN /\ result' = None
                  /\ pc' = "returned"
             ELSE /\ result' = result
                  /\ pc' = "failed"
    /\ UNCHANGED <<args, program>>

\* the end of a failed pass: the sleep when this was not the last attempt, then
\* the next value of attempt
RequestBackoff ==
    /\ pc = "failed"
    /\ frame' = [frame EXCEPT
                    !.sleeps = IF sleeps_after(frame.attempt, args.max_retries)
                               THEN Append(@, Power2(frame.attempt))
                               ELSE @,
                    !.attempt = @ + 1]
    /\ pc' = "request"
    /\ UNCHANGED <<args, result, program>>

\* the loop is exhausted: the final failure is logged and None returned
RequestGiveUp ==
    /\ pc = "request"
    /\ frame.attempt >= args.max_retries
    /\ result' = None
    /\ pc' = "returned"
    /\ UNCHANGED <<args, frame, program>>

NextRequest == RequestAttempt \/ RequestBackoff \/ RequestGiveUp

\* the loop is sequential and a request ends within its timeout
SpecRequest == InitRequest /\ [][NextRequest]_vars /\ WF_vars(NextRequest)

\* the requests before index i all failed with a status or an exception
FailedBefore(requests, i) ==
    \A j \in 1..(i - 1) : requests[j] \in {"error_status", "exception"}

\* the sleeps are 2^0, 2^1, ... one after each of the first n failed attempts
BackoffSleeps(sleeps, n) ==
    /\ Len(sleeps) = n
    /\ \A k \in 1..n : sleeps[k] = Power2(k - 1)

RequestBounded ==
    /\ Len(frame.requests) <= args.max_retries
    /\ FailedBefore(frame.requests, Len(frame.requests) + 1)
          \/ /\ pc = "returned"
             /\ FailedBefore(frame.requests, Len(frame.requests))
    /\ pc = "returned" =>
          LET n == Len(frame.requests)
          IN  /\ n >= 1
              /\ frame.requests[n] = "ok" => result = <<"json">>
              /\ frame.requests[n] # "ok" => result = None
              /\ frame.requests[n] \in {"error_status", "exception"} => n = args.max_retries
              /\ BackoffSleeps(frame.sleeps, n - 1)

\* C12: safe_api_request issues at most max_retries requests and none after a
\* success; it sleeps 2^k seconds only between failed attempt k and attempt
\* k+1 and never after the last attempt; after the last failed attempt it
\* returns no data; and it always returns.
C12_RetriesAreBounded == [](RequestBounded) /\ <>(pc = "returned")

\* every attempt of three failed: two sleeps, of 1 and 2 seconds, and no data
C12_Witness ==
    /\ pc = "returned"
    /\ args.max_retries = 3
    /\ Len(frame.requests) = 3
    /\ frame.requests[3] = "exception"
    /\ frame.sleeps = <<1, 2>>
    /\ result = None

----------------------------------------------------------------------------
(* Feed ingestor: parse_draw_numbers, fetch_game_month_data and                *)
(* crawl_game_incrementally                                                    *)

(* A feed entry is [drawNumberSize, lotteryDate, period]. lotteryDate is       *)
(* [text, date]: text "" when the field is missing or empty, "bad" when        *)
(* datetime.fromisoformat rejects it, "iso" when it gives the calendar date    *)
(* `date`, a [year, month, day]. In the records of this section 'date' is      *)
(* that calendar date.                                                         *)

NoDate == [year |-> 0, month |-> 0, day |-> 0]

\* the test of the count of numbers left out
too_few_numbers_never(draw_numbers, game_config) == FALSE

\* not draw_numbers or len(draw_numbers) < game_config["number_count"]
too_few_numbers(draw_numbers, game_config) ==
    Len(draw_numbers) < game_config.number_count

\* draw_numbers[:number_count]; a slice ends where the list ends
normal_numbers(draw_numbers, game_config) ==
    SubSeq(draw_numbers, 1,
           IF Len(draw_numbers) < game_config.number_count
           THEN Len(draw_numbers) ELSE game_config.number_count)

\* the special number is taken for every game
special_number_any_game(draw_numbers, game_config) ==
    IF Len(draw_numbers) > game_config.number_count
    THEN <<draw_numbers[game_config.number_count + 1]>>
    ELSE <<>>

\* special_number: the entry after the primary numbers, for a game with one
special_number(draw_numbers, game_config) ==
    IF game_config.has_special /\ Len(draw_numbers) > game_config.number_count
    THEN <<draw_numbers[game_config.number_count + 1]>>
    ELSE <<>>

\* parse_draw_numbers: <<>> for None, else the one record
parse_draw_numbers(raw_data, game_config) ==
    IF too_few_numbers(raw_data.drawNumberSize, game_config) THEN <<>>
    ELSE IF raw_data.lotteryDate.text = "" THEN <<>>
    ELSE IF raw_data.lotteryDate.text = "bad" THEN <<>>
    ELSE <<[date    |-> raw_data.lotteryDate.date,
            period  |-> raw_data.period,
            numbers |-> sort_numbers(normal_numbers(raw_data.drawNumberSize, game_config)),
            special |-> special_number(raw_data.drawNumberSize, game_config)]>>

RECURSIVE parsed_draws(_, _)
parsed_draws(draw_list, game_config) ==
    IF draw_list = <<>> THEN <<>>
    ELSE parse_draw_numbers(Head(draw_list), game_config)
         \o parsed_draws(Tail(draw_list), game_config)

(* What safe_api_request and the body it returns come to for one window:      *)
(* "none" (None: retries exhausted or status 404), "rtcode" (rtCode is not 0), *)
(* "nolist" (no field of content is a list, or the body is not of the          *)
(* expected shape and the parse raises), "list" with the entries draw_list.    *)
fetch_game_month_data(game_name, response) ==
    IF game_name \notin GameNames THEN <<>>
    ELSE IF GAME_API_CONFIG[game_name].api_path = "" THEN <<>>
    ELSE IF response.kind # "list" THEN <<>>
    ELSE parsed_draws(response.draw_list, GAME_API_CONFIG[game_name])

\* what the feed can hold: two well-formed draws, an entry with too few
\* numbers and an entry whose date is not ISO
FeedEntries ==
    {[drawNumberSize |-> <<6, 5, 4, 3, 2, 1, 7>>,
      lotteryDate |-> [text |-> "iso", date |-> [year |-> 2025, month |-> 10, day |-> 3]],
      period |-> "2025001"],
     [drawNumberSize |-> <<1, 2, 3, 4, 5, 6, 7>>,
      lotteryDate |-> [text |-> "iso", date |-> [year |-> 2025, month |-> 10, day |-> 17]],
      period |-> "2025002"],
     [drawNumberSize |-> <<1, 2, 3, 4, 5>>,
      lotteryDate |-> [text |-> "iso", date |-> [year |-> 2025, month |-> 10, day |-> 17]],
      period |-> "2025002"],
     [drawNumberSize |-> <<1, 2, 3, 4, 5, 6, 7>>,
      lotteryDate |-> [text |-> "bad", date |-> NoDate],
      period |-> "2025002"]}

\* what a request for one window can come to
Responses ==
    {[kind |-> k, draw_list |-> <<>>] : k \in {"none", "rtcode", "nolist"}}
    \cup {[kind |-> "list", draw_list |-> l] :
             l \in UNION {[1..n -> FeedEntries] : n \in 0..MaxEntries}}

\* a draw of the dataset; NoDate stands for a date string that is not
\* 'YYYY-MM-DD' (update.py keeps the text of a date it cannot read)
StoredDraw(date) ==
    [date |-> date, period |-> "", numbers |-> <<1, 2, 3, 4, 5, 6>>, special |-> <<7>>]

\* existing_draws of the game
CrawlExisting ==
    {<<>>,
     <<StoredDraw([year |-> 2025, month |-> 8, day |-> 29])>>,
     <<StoredDraw([year |-> 2025, month |-> 9, day |-> 26])>>,
     <<StoredDraw([year |-> 2025, month |-> 10, day |-> 3])>>,
     <<StoredDraw([year |-> 2025, month |-> 10, day |-> 3]), StoredDraw(NoDate)>>,
     <<StoredDraw([year |-> 2000, month |-> 12, day |-> 29])>>}

InitCrawl ==
    /\ pc = "crawl"
    /\ \E g \in {n \in GameNames : GAME_API_CONFIG[n].api_path # ""},
          existing_draws \in CrawlExisting :
          args = [game_name      |-> g,
                  existing_draws |-> existing_draws,
                  latest_date    |-> DatetimeMin,
                  today          |-> [year |-> 2025, month |-> 10, day |-> 15]]
    /\ frame = <<>>
    /\ result = <<>>
    /\ dataFile = AbsentFile
    /\ backupFile = AbsentFile
    /\ infoFile = AbsentFile
    /\ existing = EmptyDict
    /\ new_data = EmptyDict
    /\ merged = EmptyDict
    /\ total_added = 0
    /\ merged2 = EmptyDict
    /\ total_added2 = 0
    /\ csv_files = <<>>
    /\ run = "crawl"
    /\ ended = ""
    /\ at_start = AbsentFile
    /\ pre_save = AbsentFile
    /\ last_saved = AbsentFile

\* the latest date read from the first draw of the list instead of the last
CrawlLatestDateOfFirst ==
    /\ pc = "crawl"
    /\ LET draws == args.existing_draws
       IN  args' = [args EXCEPT !.latest_date =
                       IF draws # <<>> /\ draws[1].date # NoDate
                       THEN draws[1].date
                       ELSE DatetimeMin]
    /\ pc' = "call"
    /\ UNCHANGED <<frame, result, program>>

\* latest_date: strptime of the last draw's date, datetime.min when there is
\* no draw or the date cannot be read
CrawlLatestDate ==
    /\ pc = "crawl"
    /\ LET draws == args.existing_draws
       IN  args' = [args EXCEPT !.latest_date =
                       IF draws # <<>> /\ draws[Len(draws)].date # NoDate
                       THEN draws[Len(draws)].date
                       ELSE DatetimeMin]
    /\ pc' = "call"
    /\ UNCHANGED <<frame, result, program>>

\* months_to_fetch has been computed: return [] when it is empty, else start
\* the loop over the windows
CrawlWindows ==
    /\ pc = "returned"
    /\ run = "crawl"
    /\ IF result = <<>>
       THEN /\ pc' = "crawled"
            /\ frame' = [months_to_fetch |-> <<>>, i |-> 1, fetched |-> <<>>,
                         responses |-> <<>>, all_new_draws |-> <<>>]
       ELSE /\ pc' = "fetch"
            /\ frame' = [months_to_fetch |-> result, i |-> 1, fetched |-> <<>>,
                         responses |-> <<>>, all_new_draws |-> <<>>]
    /\ result' = <<>>
    /\ UNCHANGED <<args, program>>

\* the draws of month_draws whose date no existing draw has
new_in_month(month_draws, existing_draws) ==
    LET existing_dates == {existing_draws[k].date : k \in DOMAIN existing_draws}
        fresh(draw)    == draw.date \notin existing_dates
    IN  SelectSeq(month_draws, fresh)

\* the loop over the windows given up at the first window without draws
CrawlFetchUntilEmpty ==
    /\ pc = "fetch"
    /\ frame.i <= Len(frame.months_to_fetch)
    /\ \E response \in Responses :
          LET month_draws == fetch_game_month_data(args.game_name, response)
          IN  frame' = [frame EXCEPT
                  !.fetched = Append(@, frame.months_to_fetch[frame.i]),
                  !.responses = Append(@, response),
                  !.all_new_draws = @ \o new_in_month(month_draws, args.existing_draws),
                  !.i = IF month_draws = <<>> THEN Len(frame.months_to_fetch) + 1 ELSE @ + 1]
    /\ UNCHANGED <<pc, args, result, program>>

\* one pass of "for year, month in months_to_fetch": the fetch of the window
\* and the draws it adds
CrawlFetch ==
    /\ pc = "fetch"
    /\ frame.i <= Len(frame.months_to_fetch)
    /\ \E response \in Responses :
          LET month_draws == fetch_game_month_data(args.game_name, response)
          IN  frame' = [frame EXCEPT
                  !.fetched = Append(@, frame.months_to_fetch[frame.i]),
                  !.responses = Append(@, response),
                  !.all_new_draws = @ \o new_in_month(month_draws, args.existing_draws),
                  !.i = @ + 1]
    /\ UNCHANGED <<pc, args, result, program>>

\* return all_new_draws
CrawlReturn ==
    /\ pc = "fetch"
    /\ frame.i > Len(frame.months_to_fetch)
    /\ result' = frame.all_new_draws
    /\ pc' = "crawled"
    /\ UNCHANGED <<args, frame, program>>

NextCrawl ==
    \/ CrawlLatestDate
    \/ MonthsStart \/ MonthsAppend \/ MonthsReturn
    \/ CrawlWindows \/ CrawlFetch \/ CrawlReturn

SpecCrawl == InitCrawl /\ [][NextCrawl]_vars

\* a feed entry that is well formed for the game: enough numbers, an ISO date
WellFormed(entry, game_name) ==
    /\ Len(entry.drawNumberSize) >= GAME_API_CONFIG[game_name].number_count
    /\ entry.lotteryDate.text = "iso"

\* the entries of a response that are draws the dataset does not have
NewEntries(response) ==
    IF response.kind # "list" THEN {}
    ELSE {j \in DOMAIN response.draw_list :
             /\ WellFormed(response.draw_list[j], args.game_name)
             /\ \A k \in DOMAIN args.existing_draws :
                   args.existing_draws[k].date # response.draw_list[j].lotteryDate.date}

\* C13: a window that fails gives no record and does not stop the crawl: when
\* crawl_game_incrementally returns, one fetch was issued for each computed
\* window, in window order, and the batch holds a record for each new
\* well-formed entry of each answered window and nothing else.
C13_FailedWindowSkipped ==
    pc = "crawled" =>
        /\ frame.fetched = frame.months_to_fetch
        /\ Len(frame.responses) = Len(frame.months_to_fetch)
        /\ \A w \in DOMAIN frame.responses :
              \A j \in NewEntries(frame.responses[w]) :
                  \E n \in DOMAIN result :
                      /\ result[n].date = frame.responses[w].draw_list[j].lotteryDate.date
                      /\ result[n].period = frame.responses[w].draw_list[j].period
        /\ Len(result) =
              SumOver(DOMAIN frame.responses,
                      [w \in DOMAIN frame.responses |->
                          Cardinality(NewEntries(frame.responses[w]))])

\* the first of two windows failed and the second gave a new draw
C13_Witness ==
    /\ pc = "crawled"
    /\ Len(frame.months_to_fetch) = 2
    /\ frame.responses[1].kind = "none"
    /\ frame.responses[2].kind = "list"
    /\ Len(result) = 1

\* the game has a local date: a last draw whose date can be read
HasLocalDate ==
    /\ args.existing_draws # <<>>
    /\ args.existing_draws[Len(args.existing_draws)].date # NoDate

LocalDate == args.existing_draws[Len(args.existing_draws)].date

\* crawl_game_incrementally has its windows
WindowsComputed == run = "crawl" /\ pc \in {"fetch", "crawled"}

----------------------------------------------------------------------------
(* The two normalizers on their own: one archive row, one feed entry *)

\* a full row of each game as the archive writes it, numbers in drawing order
BaseCols ==
    [Lotto649      |-> <<<<6>>, <<5>>, <<4>>, <<3>>, <<2>>, <<1>>, <<7>>>>,
     SuperLotto638 |-> <<<<6>>, <<5>>, <<4>>, <<3>>, <<2>>, <<1>>, <<7>>>>,
     DailyCash     |-> <<<<5>>, <<4>>, <<3>>, <<2>>, <<1>>, <<>>, <<>>>>,
     Star3         |-> <<<<3>>, <<0>>, <<9>>, <<>>, <<>>, <<>>, <<>>>>]

\* what one cell can hold instead: nothing, or a number at or beside the end
\* of a game's range
CellVariants == {<<>>, <<0>>, <<10>>, <<38>>, <<39>>, <<40>>, <<49>>, <<50>>}

\* the rows of the model: a full row cut to `len` cells with one cell replaced
NormalizerRows ==
    {[game_name |-> g, period |-> "2025001", date |-> d,
      cols |-> [i \in 1..len |-> IF i = p THEN v ELSE BaseCols[g][i]]] :
        g \in GameNames, d \in 0..MaxDate, len \in 0..7, p \in 1..7, v \in CellVariants}
    \cup {[game_name |-> "Other", period |-> "2025001", date |-> 1,
           cols |-> BaseCols["Lotto649"]]}

\* the entries of the model: 1, 2, ... cut to `len` numbers with one replaced
NormalizerEntries ==
    {[drawNumberSize |-> [i \in 1..len |-> IF i = p THEN v ELSE len + 1 - i],
      lotteryDate |-> lotteryDate, period |-> "2025001"] :
        len \in 0..8, p \in 1..8, v \in {0, 1, 50},
        lotteryDate \in {[text |-> "", date |-> NoDate],
                         [text |-> "bad", date |-> NoDate],
                         [text |-> "iso", date |-> [year |-> 2025, month |-> 10, day |-> 3]]}}

InitNormalize ==
    /\ pc = "normalize"
    /\ \/ \E row \in NormalizerRows :
             args = [source |-> "archive", game_name |-> row.game_name,
                     row |-> row, raw_data |-> <<>>]
       \/ \E g \in {n \in GameNames : GAME_API_CONFIG[n].api_path # ""},
             raw_data \in NormalizerEntries :
             args = [source |-> "feed", game_name |-> g,
                     row |-> <<>>, raw_data |-> raw_data]
    /\ frame = <<>>
    /\ result = <<>>
    /\ NoProgram

\* the body of the row loop of parse_taiwan_lottery_csv, for one row
NormalizeRow ==
    /\ pc = "normalize"
    /\ args.source = "archive"
    /\ result' = parse_row(args.row)
    /\ pc' = "normalized"
    /\ UNCHANGED <<args, frame, program>>

\* parsed = parse_draw_numbers(raw_draw, config)
NormalizeEntry ==
    /\ pc = "normalize"
    /\ args.source = "feed"
    /\ result' = parse_draw_numbers(args.raw_data, GAME_API_CONFIG[args.game_name])
    /\ pc' = "normalized"
    /\ UNCHANGED <<args, frame, program>>

NextNormalize == NormalizeRow \/ NormalizeEntry

SpecNormalize == InitNormalize /\ [][NextNormalize]_vars

\* the valid range of the primary numbers of a game
InValidRange(g, n) ==
    IF g = "Lotto649" THEN 1 <= n /\ n <= 49
    ELSE IF g = "SuperLotto638" THEN 1 <= n /\ n <= 38
    ELSE IF g = "DailyCash" THEN 1 <= n /\ n <= 39
    ELSE 0 <= n /\ n <= 9

\* the number cells of the row's game that hold a number within range
AcceptedCells(row) ==
    {i \in 1..GAME_API_CONFIG[row.game_name].number_count :
        /\ i <= Len(row.cols)
        /\ row.cols[i] # <<>>
        /\ InValidRange(row.game_name, row.cols[i][1])}

Produced == pc = "normalized" /\ result # <<>>

\* C14: a record with the wrong number of primary numbers is rejected: an
\* archive row whose accepted numbers are not exactly number_count, and a feed
\* entry with fewer than number_count numbers, give no record, and every
\* record produced has exactly number_count primary numbers.
C14_WrongCountRejected ==
    pc = "normalized" =>
        /\ (/\ args.source = "archive"
            /\ args.game_name \in GameNames
            /\ Cardinality(AcceptedCells(args.row))
                  # GAME_API_CONFIG[args.game_name].number_count)
              => result = <<>>
        /\ (/\ args.source = "feed"
            /\ Len(args.raw_data.drawNumberSize)
                  < GAME_API_CONFIG[args.game_name].number_count)
              => result = <<>>
        /\ result # <<>> =>
              Len(result[1].numbers) = GAME_API_CONFIG[args.game_name].number_count

\* an archive row with one number out of range gives no record
C14_Witness ==
    /\ pc = "normalized"
    /\ args.source = "archive"
    /\ args.game_name = "Lotto649"
    /\ args.row.date # 0
    /\ Len(args.row.cols) = 7
    /\ Cardinality(AcceptedCells(args.row)) = 5
    /\ result = <<>>

\* C15: every record a normalizer produces carries a special number if and
\* only if has_special is true for its game.
C15_SpecialIffHasSpecial ==
    Produced =>
        (result[1].special # <<>> <=> GAME_API_CONFIG[args.game_name].has_special)

\* C16: every primary number of every record a normalizer produces lies
\* within the valid range of its game.
C16_NumbersInRange ==
    Produced =>
        \A i \in DOMAIN result[1].numbers :
            InValidRange(args.game_name, result[1].numbers[i])

----------------------------------------------------------------------------
(* Archive ingestor: the draw date of a row *)

(* The text of a date is [sep, fields]: the fields are its runs of digits,    *)
(* each [value, digits] (digits counts the leading zeros too), and sep is      *)
(* what stands between and after them: "slash" a/b/c, "dash" a-b-c,            *)
(* "dot" a.b.c, "cjk" a年b月c日 (two fields: b月c日). A parsed date is a        *)
(* [year, month, day], NoDate when the text was not read. In parse_row,        *)
(* row.date is 0 exactly when parse_date gives NoDate.                         *)

IsLeap(year) == year % 4 = 0 /\ (year % 100 # 0 \/ year % 400 = 0)

DaysIn(year, month) ==
    IF month = 2 THEN (IF IsLeap(year) THEN 29 ELSE 28)
    ELSE IF month \in {4, 6, 9, 11} THEN 30 ELSE 31

\* date_formats, in the order they are tried
date_formats ==
    <<[sep |-> "slash", order |-> "ymd"],
      [sep |-> "dash",  order |-> "ymd"],
      [sep |-> "cjk",   order |-> "ymd"],
      [sep |-> "dot",   order |-> "ymd"],
      [sep |-> "slash", order |-> "mdy"],
      [sep |-> "slash", order |-> "dmy"]>>

\* datetime.strptime(text, fmt): %Y is four digits, %m and %d one or two; a
\* month outside 1..12 or a day the month does not have is a ValueError
strptime(text, fmt) ==
    IF text.sep # fmt.sep \/ Len(text.fields) # 3 THEN NoDate
    ELSE LET y == IF fmt.order = "ymd" THEN text.fields[1] ELSE text.fields[3]
             m == IF fmt.order = "ymd" THEN text.fields[2]
                  ELSE IF fmt.order = "mdy" THEN text.fields[1] ELSE text.fields[2]
             d == IF fmt.order = "ymd" THEN text.fields[3]
                  ELSE IF fmt.order = "mdy" THEN text.fields[2] ELSE text.fields[1]
         IN  IF /\ y.digits = 4 /\ y.value >= 1
                /\ m.digits \in {1, 2} /\ m.value \in 1..12
                /\ d.digits \in {1, 2} /\ d.value >= 1 /\ d.value <= DaysIn(y.value, m.value)
             THEN [year |-> y.value, month |-> m.value, day |-> d.value]
             ELSE NoDate

\* for fmt in date_formats: the first format that reads the text
RECURSIVE first_format(_, _)
first_format(text, formats) ==
    IF formats = <<>> THEN NoDate
    ELSE LET parsed_date == strptime(text, Head(formats))
         IN  IF parsed_date # NoDate THEN parsed_date
             ELSE first_format(text, Tail(formats))

\* f"{default_year}/{month_day}" with month_day the text without 月 and 日:
\* "b月c日" becomes "b/c"; a text that keeps another separator is not a/b/c
with_default_year(text, default_year) ==
    [sep    |-> IF text.sep = "slash" \/ (text.sep = "cjk" /\ Len(text.fields) = 2)
                THEN "slash" ELSE "mixed",
     fields |-> <<[value |-> default_year, digits |-> 4]>> \o text.fields]

\* the date of a row: the formats, then the default year of the archive
parse_date(text, default_year) ==
    LET parsed_date == first_format(text, date_formats)
    IN  IF parsed_date = NoDate /\ default_year # 0
        THEN strptime(with_default_year(text, default_year), date_formats[1])
        ELSE parsed_date

\* update.py parse_csv_file: 年, 月 and 日 become slashes; a text of three
\* digits/d/d gets 1911 added, of four digits/d/d is rewritten with dashes and
\* two-digit fields, and any other text is kept as it is, which is a
\* normalized date only when it was written yyyy-mm-dd
update_clean_date(text) ==
    IF /\ text.sep = "slash" /\ Len(text.fields) = 3
       /\ text.fields[1].digits \in {3, 4}
       /\ text.fields[2].digits \in {1, 2} /\ text.fields[3].digits \in {1, 2}
    THEN [year  |-> IF text.fields[1].digits = 3
                    THEN text.fields[1].value + 1911 ELSE text.fields[1].value,
          month |-> text.fields[2].value,
          day   |-> text.fields[3].value]
    ELSE IF /\ text.sep = "dash" /\ Len(text.fields) = 3
            /\ text.fields[1].digits = 4
            /\ text.fields[2].digits = 2 /\ text.fields[3].digits = 2
    THEN [year  |-> text.fields[1].value,
          month |-> text.fields[2].value,
          day   |-> text.fields[3].value]
    ELSE NoDate

\* the layouts a date is written in: separator and order of the fields
Layouts ==
    [ymd_slash |-> [sep |-> "slash", order |-> "ymd"],
     ymd_dash  |-> [sep |-> "dash",  order |-> "ymd"],
     ymd_dot   |-> [sep |-> "dot",   order |-> "ymd"],
     ymd_cjk   |-> [sep |-> "cjk",   order |-> "ymd"],
     mdy_slash |-> [sep |-> "slash", order |-> "mdy"],
     dmy_slash |-> [sep |-> "slash", order |-> "dmy"]]

YmdLayouts == {"ymd_slash", "ymd_dash", "ymd_dot", "ymd_cjk"}

\* a number written with or without a leading zero
Written(value, pad) ==
    [value |-> value, digits |-> IF value >= 10 \/ pad THEN 2 ELSE 1]

\* the text of a date in a layout; era: the year is written as the
\* three-digit year of the era that starts in 1912
WriteDate(date, layout, pad, era) ==
    LET y == IF era THEN [value |-> date.year - 1911, digits |-> 3]
             ELSE [value |-> date.year, digits |-> 4]
        m == Written(date.month, pad)
        d == Written(date.day, pad)
    IN  [sep    |-> Layouts[layout].sep,
         fields |-> IF Layouts[layout].order = "ymd" THEN <<y, m, d>>
                    ELSE IF Layouts[layout].order = "mdy" THEN <<m, d, y>>
                    ELSE <<d, m, y>>]

\* the calendar dates of the model
CalendarDates ==
    {date \in [year : 2024..(2023 + MaxYears), month : 1..12,
               day : {1, 3, 12, 13, 28, 29, 30, 31}] :
        date.day <= DaysIn(date.year, date.month)}

\* a text of two fields, a month and a day
MonthDayText(date, sep, pad) ==
    [sep |-> sep, fields |-> <<Written(date.month, pad), Written(date.day, pad)>>]

(* args: the text date_str of column 2 and the default year of the archive   *)
(* (0 for None), with the date that was written, the layout it was written   *)
(* in and whether its year was written as an era year.                       *)
InitDates ==
    /\ pc = "parse"
    /\ \E date \in CalendarDates, pad \in BOOLEAN, default_year \in {0, 2025} :
          \/ \E layout \in DOMAIN Layouts :
                args = [date_str |-> WriteDate(date, layout, pad, FALSE),
                        default_year |-> default_year,
                        date |-> date, layout |-> layout, era |-> FALSE]
          \/ \E layout \in YmdLayouts :
                args = [date_str |-> WriteDate(date, layout, pad, TRUE),
                        default_year |-> default_year,
                        date |-> date, layout |-> layout, era |-> TRUE]
          \/ \E sep \in {"slash", "cjk"} :
                args = [date_str |-> MonthDayText(date, sep, pad),
                        default_year |-> default_year,
                        date |-> date, layout |-> "month_day", era |-> FALSE]
    /\ frame = <<>>
    /\ result = <<>>
    /\ NoProgram

\* initialize.py parse_taiwan_lottery_csv: the draw date of the row
ParseDate ==
    /\ pc = "parse"
    /\ result' = parse_date(args.date_str, args.default_year)
    /\ pc' = "parsed"
    /\ UNCHANGED <<args, frame, program>>

\* update.py parse_csv_file: the date of the row
UpdateCleanDate ==
    /\ pc = "parse"
    /\ result' = update_clean_date(args.date_str)
    /\ pc' = "cleaned"
    /\ UNCHANGED <<args, frame, program>>

NextDates == ParseDate \/ UpdateCleanDate

SpecDates == InitDates /\ [][NextDates]_vars

\* C18: a draw date written with a three-digit era year, month and day is
\* normalized to the common-era date (114 to 2025, same month and day) and the
\* row is kept; a date written with a four-digit year keeps its year.
C18_EraYearNormalized ==
    /\ (/\ pc \in {"parsed", "cleaned"}
        /\ args.era)
          => result = args.date
    /\ (/\ \/ pc = "parsed" /\ args.layout \in DOMAIN Layouts
           \/ /\ pc = "cleaned"
              /\ args.layout \in {"ymd_slash", "ymd_dash"}
              /\ args.date_str.fields[2].digits = 2
              /\ args.date_str.fields[3].digits = 2
        /\ ~args.era)
          => (result # NoDate /\ result.year = args.date.year)

\* C20: a calendar date written in any supported layout (year-month-day with
\* slash, dash, dot or CJK separators, month/day/year, day/month/year) is
\* normalized by the archive date parser to the same calendar date.
C20_LayoutRoundTrip ==
    (/\ pc = "parsed"
     /\ ~args.era
     /\ args.layout \in DOMAIN Layouts)
        => result = args.date

----------------------------------------------------------------------------
(* Archive ingestor: detect_year_from_zip_filename *)

(* The name of an archive, without its path and ".zip", is [bare, numbers]:   *)
(* numbers are its runs of digits, each [value, digits]; bare says that the   *)
(* whole name is one number that int() reads.                                 *)

ROCN_YEAR_MAP ==
    [roc_year \in 110..115 |-> roc_year + 1911]

\* roc_year in ROCN_YEAR_MAP, else the formula
from_roc_year(roc_year) ==
    IF roc_year \in DOMAIN ROCN_YEAR_MAP THEN ROCN_YEAR_MAP[roc_year] ELSE roc_year + 1911

\* detect_year_from_zip_filename; 0 for None
detect_year_from_zip_filename(name) ==
    IF name.bare
    THEN LET year == name.numbers[1].value
         IN  IF 2000 <= year /\ year <= 2100 THEN year
             ELSE IF 100 <= year /\ year <= 200 THEN from_roc_year(year)
             ELSE 0
    ELSE IF name.numbers = <<>> THEN 0
    ELSE LET year == name.numbers[1].value
         IN  IF name.numbers[1].digits = 4
             THEN (IF 2000 <= year /\ year <= 2100 THEN year ELSE 0)
             ELSE IF name.numbers[1].digits = 3 THEN from_roc_year(year)
             ELSE 0

\* the numbers a name can hold: at and beside the ends of the two ranges and
\* of the table, a game's number, a number written with a leading zero
NameNumbers ==
    {[value |-> v, digits |-> IF v < 100 THEN 2 ELSE IF v < 1000 THEN 3 ELSE 4] :
        v \in {99, 100, 109, 110, 114, 115, 116, 200, 201, 649,
               1999, 2000, 2025, 2100, 2101}}
    \cup {[value |-> 99, digits |-> 3], [value |-> 20250, digits |-> 5]}

InitYear ==
    /\ pc = "detect"
    /\ \/ \E number \in NameNumbers :
             args = [bare |-> TRUE, numbers |-> <<number>>]
       \/ \E n \in 0..2 : \E numbers \in [1..n -> NameNumbers] :
             args = [bare |-> FALSE, numbers |-> numbers]
    /\ frame = <<>>
    /\ result = <<>>
    /\ NoProgram

\* default_year = detect_year_from_zip_filename(zip_filename)
DetectYear ==
    /\ pc = "detect"
    /\ result' = detect_year_from_zip_filename(args)
    /\ pc' = "detected"
    /\ UNCHANGED <<args, frame, program>>

NextYear == DetectYear

SpecYear == InitYear /\ [][NextYear]_vars

\* C19: the year token of an archive name is resolved by range, whether the
\* name is a bare number or holds the number among other text: 100-200 gives
\* the token plus 1911, 2000-2100 gives the token, and any other token gives
\* no year.
C19_YearResolvedByRange ==
    (pc = "detected" /\ args.numbers # <<>>) =>
        LET token == args.numbers[1].value
        IN  result = IF 100 <= token /\ token <= 200 THEN token + 1911
                     ELSE IF 2000 <= token /\ token <= 2100 THEN token
                     ELSE 0

----------------------------------------------------------------------------
(* Coverage validator: check_data_coverage *)

(* The dataset handed to check_data_coverage is the one load_existing_data    *)
(* returned, or that dataset after a merge: every game's sequence ascending   *)
(* by date. Dates are day numbers, timedelta(days=1) is + 1. What the         *)
(* function logs for a game is [game_name, kind, missing, listed]: kind       *)
(* "no_data" (無資料), "missing" (缺失期數, with the count, and the days when  *)
(* there are at most five) or "complete" (資料完整).                          *)

\* the days of the model: a span long enough for more than five missing days
CoverageDays == 1..(MaxDate + 6)

\* the walk over the span taking every other day
expected_dates_every_other(earliest_date, latest_date) ==
    IF earliest_date > latest_date THEN <<>>
    ELSE [k \in 1..((latest_date - earliest_date) \div 2 + 1) |-> earliest_date + 2 * (k - 1)]

\* expected_dates: current = earliest_date; while current <= latest_date:
\* append current; current += timedelta(days=1)
expected_dates(earliest_date, latest_date) ==
    IF earliest_date > latest_date THEN <<>>
    ELSE [k \in 1..(latest_date - earliest_date + 1) |-> earliest_date + k - 1]

\* actual_dates = set(d['date'] for d in draws)
actual_dates(draws) == {draws[i].date : i \in DOMAIN draws}

\* missing_dates = [d for d in expected_dates if d not in actual_dates]
missing_dates(draws) ==
    LET earliest_date == draws[1].date
        latest_date   == draws[Len(draws)].date
        actual        == actual_dates(draws)
        absent(d)     == d \notin actual
    IN  SelectSeq(expected_dates(earliest_date, latest_date), absent)

\* one pass of "for game_name, draws in data.items()": what it logs
coverage_of_game(game_name, draws) ==
    IF draws = <<>>
    THEN [game_name |-> game_name, kind |-> "no_data", missing |-> 0, listed |-> <<>>]
    ELSE LET missing == missing_dates(draws)
         IN  IF missing # <<>>
             THEN [game_name |-> game_name, kind |-> "missing", missing |-> Len(missing),
                   listed |-> IF Len(missing) <= 5 THEN missing ELSE <<>>]
             ELSE [game_name |-> game_name, kind |-> "complete", missing |-> 0,
                   listed |-> <<>>]

\* a draw of the dataset on a day
CoverageDraw(d) ==
    [date |-> d, period |-> "", numbers |-> <<1, 2, 3, 4, 5>>, special |-> <<>>]

\* the sequences of up to n draws, ascending by date
SortedDraws(n) ==
    {draws \in UNION {[1..l -> {CoverageDraw(d) : d \in CoverageDays}] : l \in 0..n} :
        IsSortedByDate(draws)}

\* data.items() runs over the games in the order of the document
GameOrders == {<<"Lotto649", "DailyCash">>, <<"DailyCash", "Lotto649">>}

InitCoverage ==
    /\ pc = "coverage"
    /\ \E order \in GameOrders, draws \in SortedDraws(MaxRecords), other \in SortedDraws(1) :
          args = [order |-> order,
                  data  |-> [Lotto649 |-> draws, DailyCash |-> other]]
    /\ frame = [i |-> 1, log |-> <<>>]
    /\ result = <<>>
    /\ NoProgram

\* one pass of the loop over the games
CoverageGame ==
    /\ pc = "coverage"
    /\ frame.i <= Len(args.order)
    /\ LET game_name == args.order[frame.i]
       IN  frame' = [frame EXCEPT
                        !.log = Append(@, coverage_of_game(game_name, args.data[game_name])),
                        !.i = @ + 1]
    /\ UNCHANGED <<pc, args, result, program>>

\* the loop has ended: the function returns None
CoverageReturn ==
    /\ pc = "coverage"
    /\ frame.i > Len(args.order)
    /\ result' = None
    /\ pc' = "covered"
    /\ UNCHANGED <<args, frame, program>>

NextCoverage == CoverageGame \/ CoverageReturn

SpecCoverage == InitCoverage /\ [][NextCoverage]_vars

\* the days of the inclusive span of a game that are the date of no record
MissingDays(draws) ==
    LET days == {draws[i].date : i \in DOMAIN draws}
    IN  {d \in CoverageDays :
            /\ \E a \in days : a <= d
            /\ \E b \in days : d <= b
            /\ d \notin days}

\* the length in days of the inclusive span of a game
SpanLength(draws) ==
    LET days == {draws[i].date : i \in DOMAIN draws}
    IN  Cardinality({d \in CoverageDays : (\E a \in days : a <= d) /\ (\E b \in days : d <= b)})

\* C21: for every game with at least one record check_data_coverage reports
\* as missing exactly the days of the inclusive span from the earliest to the
\* latest date that are the date of no record: the count is the span length
\* minus the number of distinct record dates, and the days named (it names
\* them when they are at most five) are those days in calendar order; a game
\* with no record is skipped.
C21_MissingDaysOfSpan ==
    pc = "covered" =>
        /\ Len(frame.log) = Len(args.order)
        /\ \A i \in DOMAIN frame.log :
              LET entry == frame.log[i]
                  draws == args.data[args.order[i]]
              IN  /\ entry.game_name = args.order[i]
                  /\ draws = <<>> <=> entry.kind = "no_data"
                  /\ draws # <<>> =>
                        /\ entry.missing = Cardinality(MissingDays(draws))
                        /\ entry.missing =
                              SpanLength(draws) - Cardinality(actual_dates(draws))
                        /\ entry.missing <= 5 =>
                              /\ {entry.listed[k] : k \in DOMAIN entry.listed} = MissingDays(draws)
                              /\ Len(entry.listed) = entry.missing
                              /\ \A j, k \in DOMAIN entry.listed :
                                    j < k => entry.listed[j] < entry.listed[k]
                        /\ entry.kind = "complete" <=> MissingDays(draws) = {}

\* records on day 1 and day 3: one missing day, day 2; the other game has no
\* record and is skipped
C21_Witness ==
    /\ pc = "covered"
    /\ args.order = <<"Lotto649", "DailyCash">>
    /\ Len(args.data["Lotto649"]) = 2
    /\ args.data["Lotto649"][1].date = 1
    /\ args.data["Lotto649"][2].date = 3
    /\ args.data["DailyCash"] = <<>>
    /\ frame.log[1].missing = 1
    /\ frame.log[1].listed = <<2>>
    /\ frame.log[2].kind = "no_data"

----------------------------------------------------------------------------
(* Archive ingestor: several files, failing rows and failing files *)

(* The rows of this section: two Lotto649 rows that are read, one without a   *)
(* period, one whose date no format reads, one cut after its second number    *)
(* (8 columns), and a Star3 row as the archive writes it (9 columns: six      *)
(* leading columns and three numbers).                                        *)
IngestRows ==
    {[game_name |-> "Lotto649", period |-> "2025001", date |-> 1,
      cols |-> <<<<1>>, <<2>>, <<3>>, <<4>>, <<5>>, <<6>>, <<7>>>>],
     [game_name |-> "Lotto649", period |-> "2025002", date |-> 2,
      cols |-> <<<<2>>, <<3>>, <<4>>, <<5>>, <<6>>, <<8>>, <<9>>>>],
     [game_name |-> "Lotto649", period |-> "", date |-> 2,
      cols |-> <<<<3>>, <<4>>, <<5>>, <<6>>, <<8>>, <<9>>, <<1>>>>],
     [game_name |-> "Lotto649", period |-> "2025003", date |-> 0,
      cols |-> <<<<1>>, <<2>>, <<3>>, <<4>>, <<5>>, <<6>>, <<7>>>>],
     [game_name |-> "Lotto649", period |-> "2025004", date |-> 1,
      cols |-> <<<<1>>, <<2>>>>],
     [game_name |-> "Star3", period |-> "2025005", date |-> 1,
      cols |-> <<<<3>>, <<0>>, <<9>>>>]}

\* the names of the files: two games and a name no game is read from
IngestNames == {"lotto649.csv", "3star.csv", "other.csv"}

\* a file: decodable is FALSE for a file that cannot be opened or that no
\* encoding of the list decodes
IngestFiles ==
    {[name |-> name, decodable |-> decodable, rows |-> rows] :
        name \in IngestNames, decodable \in BOOLEAN,
        rows \in UNION {[1..n -> IngestRows] : n \in 0..MaxRows}}

\* two CSV files, in processing order
InitIngest ==
    /\ pc = "import"
    /\ \E first \in IngestFiles, second \in IngestFiles : csv_files = <<first, second>>
    /\ dataFile = AbsentFile
    /\ backupFile = AbsentFile
    /\ infoFile = AbsentFile
    /\ existing = EmptyDict
    /\ new_data = EmptyDict
    /\ merged = EmptyDict
    /\ total_added = 0
    /\ merged2 = EmptyDict
    /\ total_added2 = 0
    /\ run = "ingest"
    /\ ended = ""
    /\ at_start = AbsentFile
    /\ pre_save = AbsentFile
    /\ last_saved = AbsentFile
    /\ args = <<>>
    /\ frame = <<>>
    /\ result = <<>>

NextIngest == BatchProcess

SpecIngest == InitIngest /\ [][NextIngest]_vars

\* a file that can be read, is not empty and whose name gives a game
ValidFile(file) ==
    /\ file.decodable
    /\ file.rows # <<>>
    /\ detect_game(file.name) \in GameNames

\* the records of the rows the normalizer accepts, over the valid files filed
\* under game g
AcceptedRecords(g) ==
    {parse_row(csv_files[f].rows[i])[1] :
        <<f, i>> \in {<<f, i>> \in (DOMAIN csv_files) \X (1..MaxRows) :
                        /\ ValidFile(csv_files[f])
                        /\ detect_game(csv_files[f].name) = g
                        /\ i \in DOMAIN csv_files[f].rows
                        /\ parse_row(csv_files[f].rows[i]) # <<>>}}

RecordsOf(draws) == {draws[i] : i \in DOMAIN draws}

\* every row of every file has a period, so that the de-duplication by period
\* drops no record but a repeated one
AllRowsHavePeriod ==
    \A f \in DOMAIN csv_files :
        \A i \in DOMAIN csv_files[f].rows : csv_files[f].rows[i].period # ""

\* C22: archive ingestion isolates failures: a failing row or a failing file
\* never aborts the remainder; the records batch_process_zip_files returns for
\* a game are exactly the records of every row the normalizer accepts of every
\* file that can be read and is filed under the game.
C22_FailuresIsolated ==
    (pc = "batch" /\ AllRowsHavePeriod) =>
        \A g \in GameNames : RecordsOf(new_data[g]) = AcceptedRecords(g)

----------------------------------------------------------------------------
(* Incremental synchronization: runs of crawl_game_incrementally and the      *)
(* merge, one after the other, against a feed that answers every request      *)

(* In this section a date 'YYYY-MM-DD' is the number YYYYMMDD, whose order is *)
(* the order of the strings. The feed holds the draws of FeedCalendar and     *)
(* offers, on a day, those dated up to that day; a request for a window is    *)
(* answered with the offered draws of that month. The dataset a run saves is  *)
(* the dataset the next run loads.                                            *)

\* datetime.strptime(latest_date_str, '%Y-%m-%d')
DateOfNumber(n) == [year |-> n \div 10000, month |-> (n \div 100) % 100, day |-> n % 100]

\* strftime('%Y-%m-%d')
DateNumber(date) == date.year * 10000 + date.month * 100 + date.day

FeedEntry(date, period) ==
    [drawNumberSize |-> <<1, 2, 3, 4, 5, 6, 7>>,
     lotteryDate |-> [text |-> "iso", date |-> date],
     period |-> period]

\* the draws the feed comes to hold, in the order it lists them
FeedCalendar ==
    <<FeedEntry(20250926, "2025001"), FeedEntry(20251003, "2025002"),
      FeedEntry(20251017, "2025003"), FeedEntry(20251107, "2025004")>>

\* the days on which a run is made
RunDays ==
    <<[year |-> 2025, month |-> 10, day |-> 5],
      [year |-> 2025, month |-> 10, day |-> 20],
      [year |-> 2025, month |-> 11, day |-> 15],
      [year |-> 2025, month |-> 12, day |-> 10]>>

\* the entries the feed offers on a day
Offered(today) ==
    LET published(entry) == entry.lotteryDate.date <= DateNumber(today)
    IN  SelectSeq(FeedCalendar, published)

\* the answer to params month = 'YYYY-MM' on a day: rtCode 0 and the list
FeedAnswer(year, month, today) ==
    LET of_month(entry) == entry.lotteryDate.date \div 100 = year * 100 + month
    IN  [kind |-> "list", draw_list |-> SelectSeq(Offered(today), of_month)]

\* what the dataset holds of a game before the first run: nothing, a draw
\* from an archive, or the draws of the feed up to an earlier day
SyncDatasets ==
    {<<>>,
     <<[date |-> 20250829, period |-> "2024099", numbers |-> <<1, 2, 3, 4, 5, 6>>,
        special |-> <<7>>]>>,
     parsed_draws(Offered([year |-> 2025, month |-> 9, day |-> 30]),
                  GAME_API_CONFIG["Lotto649"])}

InitSync ==
    /\ pc = "crawl"
    /\ \E g \in {n \in GameNames : GAME_API_CONFIG[n].api_path # ""},
          draws \in SyncDatasets, day \in DOMAIN RunDays :
          /\ existing = [n \in GameNames |-> IF n = g THEN draws ELSE <<>>]
          /\ args = [game_name      |-> g,
                     existing_draws |-> draws,
                     latest_date    |-> DatetimeMin,
                     today          |-> RunDays[day],
                     day            |-> day]
    /\ frame = <<>>
    /\ result = <<>>
    /\ dataFile = AbsentFile
    /\ backupFile = AbsentFile
    /\ infoFile = AbsentFile
    /\ new_data = EmptyDict
    /\ merged = EmptyDict
    /\ total_added = 0
    /\ merged2 = EmptyDict
    /\ total_added2 = 0
    /\ csv_files = <<>>
    /\ run = "crawl"
    /\ ended = ""
    /\ at_start = AbsentFile
    /\ pre_save = AbsentFile
    /\ last_saved = AbsentFile

\* latest_date: strptime of the last draw's date, datetime.min when there is
\* no draw
SyncLatestDate ==
    /\ pc = "crawl"
    /\ LET draws == args.existing_draws
       IN  args' = [args EXCEPT !.latest_date =
                       IF draws # <<>> THEN DateOfNumber(draws[Len(draws)].date)
                       ELSE DatetimeMin]
    /\ pc' = "call"
    /\ UNCHANGED <<frame, result, program>>

\* one pass of "for year, month in months_to_fetch", the request answered
SyncFetch ==
    /\ pc = "fetch"
    /\ frame.i <= Len(frame.months_to_fetch)
    /\ LET window      == frame.months_to_fetch[frame.i]
           response    == FeedAnswer(window[1], window[2], args.today)
           month_draws == fetch_game_month_data(args.game_name, response)
       IN  frame' = [frame EXCEPT
               !.fetched = Append(@, window),
               !.responses = Append(@, response),
               !.all_new_draws = @ \o new_in_month(month_draws, args.existing_draws),
               !.i = @ + 1]
    /\ UNCHANGED <<pc, args, result, program>>

\* main: if new_draws: all_new_data[game_name] = new_draws; if all_new_data:
\* merge_and_deduplicate(existing_data, all_new_data); the dataset is saved
SyncMerge ==
    /\ pc = "crawled"
    /\ LET all_new_data == IF result # <<>>
                           THEN [n \in {args.game_name} |-> result] ELSE EmptyDict
           r == merge_and_deduplicate(existing, all_new_data)
       IN  /\ new_data' = all_new_data
           /\ IF all_new_data # EmptyDict
              THEN /\ merged' = r.merged
                   /\ total_added' = r.total_added
              ELSE /\ merged' = existing
                   /\ total_added' = 0
           /\ existing' = merged'
    /\ pc' = "synced"
    /\ UNCHANGED <<disk, aside, run_record, calls>>

\* the next run, on a later day, or again on the last day of the model
SyncNextRun ==
    /\ pc = "synced"
    /\ \E day \in DOMAIN RunDays :
          /\ day > args.day \/ (day = args.day /\ day = Len(RunDays))
          /\ args' = [game_name      |-> args.game_name,
                      existing_draws |-> existing[args.game_name],
                      latest_date    |-> DatetimeMin,
                      today          |-> RunDays[day],
                      day            |-> day]
    /\ frame' = <<>>
    /\ result' = <<>>
    /\ pc' = "crawl"
    /\ UNCHANGED program

NextSync ==
    \/ SyncLatestDate
    \/ MonthsStart \/ MonthsAppend \/ MonthsReturn
    \/ CrawlWindows \/ SyncFetch \/ CrawlReturn
    \/ SyncMerge \/ SyncNextRun

\* a run goes on to its end, and runs keep being made
SpecSync == InitSync /\ [][NextSync]_vars /\ WF_vars(NextSync)

\* the dataset holds the draw of the feed entry for the game of the runs
InDataset(entry) ==
    \E i \in DOMAIN existing[args.game_name] :
        existing[args.game_name][i].date = entry.lotteryDate.date

\* a run starts while the feed offers the entry, dated after the latest local
\* date of the game
OfferedAfterLatest(entry) ==
    /\ pc = "crawl"
    /\ entry.lotteryDate.date <= DateNumber(args.today)
    /\ args.existing_draws # <<>>
    /\ entry.lotteryDate.date > args.existing_draws[Len(args.existing_draws)].date

\* C24: incremental synchronization is complete: a draw the feed offers, dated
\* after the game's latest local date, is in the dataset after the run of
\* crawl_game_incrementally and the merge, or at the latest after some later
\* run, also when it is dated in the calendar month of the latest local record.
C24_SyncComplete ==
    \A k \in DOMAIN FeedCalendar :
        OfferedAfterLatest(FeedCalendar[k]) ~> InDataset(FeedCalendar[k])

----------------------------------------------------------------------------
(* Runs of initialize.py alone, each of which can be stopped inside save_data;
   last_saved records the dataset of the last save_data that returned True *)

\* save_data returns True: the dataset it wrote is the most recent saved one
SaveCompleted ==
    /\ SaveInfoWritten
    /\ last_saved' = CompleteFile(merged)

\* KeyboardInterrupt while save_data runs
InterruptInSave ==
    /\ pc \in SavePcs
    /\ Interrupt

NextSaves ==
    \/ StartMain \/ StartMainWithImport \/ StartImport
    \/ BatchProcess \/ ImportNothing \/ ImportMerge \/ ImportReturn \/ ImportSave
    \/ MainLoad \/ MainCrawlMerge
    \/ SaveBackupOpen \/ SaveBackupCopy \/ SaveOpen \/ SaveDump \/ SaveCompleted
    \/ SaveReturn \/ InterruptInSave \/ NextRun

SpecSaves == InitRuns /\ [][NextSaves]_vars

\* the file holds a complete dataset with every record of the last saved one
HoldsLastSaved(file) ==
    /\ file.state = "complete"
    /\ KeepsRecords(last_saved.data, file.data)

\* C26: across runs of initialize.py that can be interrupted anywhere inside
\* save_data, once a save has completed, at every moment the dataset file or
\* the backup file holds a complete dataset with every record of the most
\* recent completed save.
C26_OneFileHoldsLastSave ==
    last_saved.state = "complete"
        => HoldsLastSaved(dataFile) \/ HoldsLastSaved(backupFile)

----------------------------------------------------------------------------
(* Archive ingestor: the records without a period *)

\* an earlier accumulated record of the game has the period or the date of the
\* record at place k: the same uniqueness key, whichever of the two the key is
EarlierSameKey(draws, k) ==
    \E j \in 1..(k - 1) :
        \/ draws[j].period = draws[k].period
        \/ draws[j].date = draws[k].date

\* C27: archive ingestion keeps the records whose period is empty: a record
\* the normalizer accepted and that was accumulated for its game is in the
\* batch batch_process_zip_files returns for the game, unless an earlier
\* accumulated record of the game has the same uniqueness key.
C27_EmptyPeriodKept ==
    pc = "batch" =>
        \A g \in GameNames :
            LET draws == collect_draws(csv_files)[g]
            IN  \A k \in DOMAIN draws :
                    (draws[k].period = "" /\ ~EarlierSameKey(draws, k))
                        => draws[k] \in RecordsOf(new_data[g])

----------------------------------------------------------------------------
(* update.py merge_data on its own: an existing dataset and a batch drawn     *)
(* from bounded sets                                                          *)

\* the records of update.py of this section: a day and one of two draws
MergeDataRecords ==
    {UpdateRecord(d, numbers) :
        d \in Dates, numbers \in {<<1, 2, 3, 4, 5, 6>>, <<7, 8, 9, 10, 11, 12>>}}

\* the existing datasets: no document, or the records of Lotto649 in any order
MergeDataExisting ==
    {EmptyDict} \cup
    {[Lotto649 |-> records] :
        records \in UNION {[1..n -> MergeDataRecords] : n \in 0..MaxRows}}

\* the batches extract_and_parse_zip can return: the rows of a file in file order
MergeDataBatches ==
    {[Lotto649 |-> records] :
        records \in UNION {[1..n -> MergeDataRecords] : n \in 1..MaxRows}}

InitMergeData ==
    /\ pc = "merge_data"
    /\ \E existing_data \in MergeDataExisting, batch \in MergeDataBatches :
          args = [existing_data |-> existing_data, new_data |-> batch]
    /\ frame = <<>>
    /\ result = <<>>
    /\ NoProgram

\* merged_data = merge_data(existing_data, new_data)
MergeDataCall ==
    /\ pc = "merge_data"
    /\ result' = merge_data(args.existing_data, args.new_data)
    /\ pc' = "merge_data_done"
    /\ UNCHANGED <<args, frame, program>>

NextMergeData == MergeDataCall

SpecMergeData == InitMergeData /\ [][NextMergeData]_vars

\* C28: after merge_data of update.py, for every existing dataset and every
\* batch, the records of each game of the merged dataset are in ascending
\* order of date.
C28_MergeDataSortedAscending ==
    pc = "merge_data_done" =>
        \A g \in DOMAIN result :
            \A i, j \in DOMAIN result[g] :
                i < j => result[g][i].date <= result[g][j].date

\* no two records of a game of the dataset have the same date
OneRecordPerDate(data) ==
    \A g \in DOMAIN data :
        \A i, j \in DOMAIN data[g] :
            data[g][i].date = data[g][j].date => i = j

\* C29: merge_data of update.py preserves the uniqueness of dates: when the
\* existing dataset has at most one record per date for each game, so has the
\* merged dataset, for any batch, one with several records of the same date
\* included.
C29_MergeDataKeepsDatesUnique ==
    (pc = "merge_data_done" /\ OneRecordPerDate(args.existing_data))
        => OneRecordPerDate(result)

----------------------------------------------------------------------------
(* merge_and_deduplicate and the objects it is given *)

(* In this section dicts and lists are objects with an identity. frame.dicts  *)
(* and frame.lists are the objects of the process, by reference (their place  *)
(* in the sequence): a dict maps a game to the reference of a list, a list is *)
(* a sequence of draws. args holds the references of the two arguments and    *)
(* what the objects held when the call was made. The draws themselves are     *)
(* never written to by the function.                                          *)

\* the draws of this section: one with a period for every day, one without
ObjectDraws ==
    {[date |-> d, period |-> PeriodOf(d), numbers |-> <<1, 2, 3, 4, 5, 6>>,
      special |-> <<7>>] : d \in Dates}
    \cup {[date |-> 1, period |-> "", numbers |-> <<1, 2, 3, 4, 5, 6>>, special |-> <<7>>]}

ObjectLists == UNION {[1..n -> ObjectDraws] : n \in 0..MaxRows}

\* the dicts of a caller with two lists: a game may be missing, and two keys,
\* or the two arguments, may hold the same list
ExistingDicts ==
    {EmptyDict, [Lotto649 |-> 1], [Lotto649 |-> 1, DailyCash |-> 2],
     [Lotto649 |-> 1, DailyCash |-> 1]}

NewDataDicts ==
    {[Lotto649 |-> 1], [Lotto649 |-> 2], [DailyCash |-> 2],
     [Lotto649 |-> 2, DailyCash |-> 1], [Lotto649 |-> 2, DailyCash |-> 2]}

\* the order of the keys of a dict
KeyOrder == <<"Lotto649", "SuperLotto638", "DailyCash", "Star3">>

\* dict.items(): the keys of the dict, in order
items(dict) == SelectSeq(KeyOrder, LAMBDA g : g \in DOMAIN dict)

\* the dataset a dict object stands for: every key with the draws of its list
Dataset(dicts, lists, ref) ==
    [g \in DOMAIN dicts[ref] |-> lists[dicts[ref][g]]]

\* merge_and_deduplicate(existing, new_data) is called; new_data is a dict of
\* its own or the dict passed as existing
InitMergeObjects ==
    /\ pc = "merge_and_deduplicate"
    /\ \E first \in ObjectLists, second \in ObjectLists,
          existing_ \in ExistingDicts, new_data_ \in NewDataDicts, same \in BOOLEAN :
          /\ same => (existing_ # EmptyDict /\ new_data_ = [Lotto649 |-> 2])
          /\ args = [existing |-> 1,
                     new_data |-> IF same THEN 1 ELSE 2,
                     dicts    |-> <<existing_, new_data_>>,
                     lists    |-> <<first, second>>]
    /\ frame = [dicts |-> args.dicts, lists |-> args.lists, merged |-> 0,
                total_added |-> 0, todo |-> <<>>]
    /\ result = <<>>
    /\ NoProgram

\* merged = existing.copy() in place of the copy of every list: a new dict
\* with the lists of the argument
MergeCopyShallow ==
    /\ pc = "merge_and_deduplicate"
    /\ frame' = [frame EXCEPT
                    !.dicts = Append(@, frame.dicts[args.existing]),
                    !.merged = Len(frame.dicts) + 1,
                    !.todo = items(frame.dicts[args.new_data])]
    /\ pc' = "merge_loop"
    /\ UNCHANGED <<args, result, program>>

\* merged = {game: draws.copy() for game, draws in existing.items()}: a new
\* dict and, for every game, a new list with the draws of the argument's list
MergeCopy ==
    /\ pc = "merge_and_deduplicate"
    /\ LET existing_ == frame.dicts[args.existing]
           games     == items(existing_)
           place(g)  == CHOOSE k \in DOMAIN games : games[k] = g
       IN  frame' = [frame EXCEPT
                        !.lists = @ \o [k \in DOMAIN games |-> frame.lists[existing_[games[k]]]],
                        !.dicts = Append(@, [g \in DOMAIN existing_ |->
                                                Len(frame.lists) + place(g)]),
                        !.merged = Len(frame.dicts) + 1,
                        !.todo = items(frame.dicts[args.new_data])]
    /\ pc' = "merge_loop"
    /\ UNCHANGED <<args, result, program>>

\* one pass of "for game_name, new_draws in new_data.items()": the draws are
\* appended to the list merged[game_name], which is sorted in place
MergeGame ==
    /\ pc = "merge_loop"
    /\ frame.todo # <<>>
    /\ LET game_name == Head(frame.todo)
           new_draws == frame.lists[frame.dicts[args.new_data][game_name]]
           merged_   == frame.dicts[frame.merged]
           missing   == game_name \notin DOMAIN merged_
           lists1    == IF missing THEN Append(frame.lists, <<>>) ELSE frame.lists
           merged1   == [g \in DOMAIN merged_ \cup {game_name} |->
                            IF g \in DOMAIN merged_ THEN merged_[g] ELSE Len(lists1)]
           ref       == merged1[game_name]
           r         == merge_game(lists1[ref], new_draws)
       IN  IF new_draws = <<>>
           THEN frame' = [frame EXCEPT !.todo = Tail(@)]
           ELSE frame' = [frame EXCEPT
                             !.lists = [lists1 EXCEPT ![ref] = r.draws],
                             !.dicts = [@ EXCEPT ![frame.merged] = merged1],
                             !.total_added = @ + r.added_count,
                             !.todo = Tail(@)]
    /\ UNCHANGED <<pc, args, result, program>>

\* return merged, total_added
MergeReturn ==
    /\ pc = "merge_loop"
    /\ frame.todo = <<>>
    /\ result' = [merged |-> frame.merged, total_added |-> frame.total_added]
    /\ pc' = "merge_returned"
    /\ UNCHANGED <<args, frame, program>>

NextMergeObjects == MergeCopy \/ MergeGame \/ MergeReturn

SpecMergeObjects == InitMergeObjects /\ [][NextMergeObjects]_vars

\* C30: merge_and_deduplicate leaves its arguments unchanged: after the call
\* the dicts and the lists the caller had hold what they held when the call
\* was made, the existing dataset's sequences and the batch included; the
\* appended and re-sorted draws are in the returned dataset alone, which is
\* the merge of the two datasets.
C30_ArgumentsUnchanged ==
    pc = "merge_returned" =>
        /\ \A ref \in DOMAIN args.dicts : frame.dicts[ref] = args.dicts[ref]
        /\ \A ref \in DOMAIN args.lists : frame.lists[ref] = args.lists[ref]
        /\ result.merged \notin DOMAIN args.dicts
        /\ LET r == merge_and_deduplicate(Dataset(args.dicts, args.lists, args.existing),
                                          Dataset(args.dicts, args.lists, args.new_data))
           IN  /\ Dataset(frame.dicts, frame.lists, result.merged) = r.merged
               /\ result.total_added = r.total_added

\* a draw was appended and the sort put it before a draw the existing
\* dataset had
C30_Witness ==
    /\ pc = "merge_returned"
    /\ result.total_added >= 1
    /\ "Lotto649" \in DOMAIN args.dicts[args.existing]
    /\ LET before == Dataset(args.dicts, args.lists, args.existing)["Lotto649"]
           after  == Dataset(frame.dicts, frame.lists, result.merged)["Lotto649"]
       IN  /\ before # <<>>
           /\ Len(after) > Len(before)
           /\ after[1] # before[1]

====
